---- MODULE Spec2Model ----
\* Persistence sync of the moltworker gateway (syncToR2 and its helpers),
\* modelled as a state machine.  One action is one resumption of the async
\* function: the code that runs between two awaits.  Remote processes
\* change state between those resumptions (action ProcAdvance).
\*
\* Strings whose content the code inspects (includes, trim, match) are
\* sequences of one-character strings.  An optional value (undefined in the
\* source) is a set with at most one element.
EXTENDS Integers, Sequences, FiniteSets, TLC

\* ---------------------------------------------------------------------
\* Program constants
\* ---------------------------------------------------------------------
CONFIG_CHECK_TIMEOUT_MS == 5000
RSYNC_CHECK_TIMEOUT_MS == 5000
MAX_LOG_CHARS == 2000
POLL_INTERVAL_MS == 200
SYNC_TIMEOUT_MS == 30000
TIMESTAMP_TIMEOUT_MS == 5000

OPENCLAW_CONFIG_PATH == <<"/", "r", "o", "o", "t", "/", ".", "o", "p", "e", "n", "c", "l", "a", "w", "/", "o", "p", "e", "n", "c", "l", "a", "w", ".", "j", "s", "o", "n">>
CLAWDBOT_CONFIG_PATH == <<"/", "r", "o", "o", "t", "/", ".", "c", "l", "a", "w", "d", "b", "o", "t", "/", "c", "l", "a", "w", "d", "b", "o", "t", ".", "j", "s", "o", "n">>

\* configDir values and the fixed source directories of the sync command
OPENCLAW_DIR == <<"/", "r", "o", "o", "t", "/", ".", "o", "p", "e", "n", "c", "l", "a", "w">>
CLAWDBOT_DIR == <<"/", "r", "o", "o", "t", "/", ".", "c", "l", "a", "w", "d", "b", "o", "t">>
WORKSPACE_DIR == <<"/", "r", "o", "o", "t", "/", "c", "l", "a", "w", "d">>
SKILLS_DIR == <<"/", "r", "o", "o", "t", "/", "c", "l", "a", "w", "d", "/", "s", "k", "i", "l", "l", "s">>

\* ---------------------------------------------------------------------
\* Optional values and strings
\* ---------------------------------------------------------------------
Undefined == {}
Some(x) == {x}
Get(o) == CHOOSE x \in o : TRUE

\* value ?? ''
OrEmpty(o) == IF o = Undefined THEN <<>> ELSE Get(o)

\* JavaScript truthiness of an optional environment string (plain strings).
Truthy(o) == o # Undefined /\ o # Some("")

IsDigit(c) == c \in {"0", "1", "2", "3", "4", "5", "6", "7", "8", "9"}
IsSpace(c) == c \in {" ", "\n", "\t", "\r"}

RECURSIVE TrimStart(_)
TrimStart(s) == IF s # <<>> /\ IsSpace(Head(s)) THEN TrimStart(Tail(s)) ELSE s

RECURSIVE TrimEnd(_)
TrimEnd(s) == IF s # <<>> /\ IsSpace(s[Len(s)]) THEN TrimEnd(SubSeq(s, 1, Len(s) - 1)) ELSE s

\* String.prototype.trim
Trim(s) == TrimEnd(TrimStart(s))

\* String.prototype.includes
Includes(s, sub) == \E i \in 0..(Len(s) - Len(sub)) : SubSeq(s, i + 1, i + Len(sub)) = sub

\* Variant of MatchesDatePrefix: the pattern without its ^ anchor.
MatchesDatePrefix_Unanchored(s) ==
    \E k \in 0..(Len(s) - 10) :
        /\ \A i \in {1, 2, 3, 4, 6, 7, 9, 10} : IsDigit(s[k + i])
        /\ s[k + 5] = "-"
        /\ s[k + 8] = "-"

\* lastSync.match(/^\d{4}-\d{2}-\d{2}/)
MatchesDatePrefix(s) ==
    /\ Len(s) >= 10
    /\ \A i \in {1, 2, 3, 4, 6, 7, 9, 10} : IsDigit(s[i])
    /\ s[5] = "-"
    /\ s[8] = "-"

\* Variant of TimestampValid: any non-empty marker is accepted.
TimestampValid_NonEmptyOnly(lastSync) ==
    /\ lastSync # Undefined
    /\ Get(lastSync) # <<>>

\* lastSync && lastSync.match(...), on the optional trimmed marker
TimestampValid(lastSync) ==
    /\ lastSync # Undefined
    /\ Get(lastSync) # <<>>
    /\ MatchesDatePrefix(Get(lastSync))

\* timestampLogs.stdout?.trim()
TrimOpt(o) == IF o = Undefined THEN Undefined ELSE Some(Trim(Get(o)))

\* ---------------------------------------------------------------------
\* Outputs the remote side can produce (inputs of the model)
\* ---------------------------------------------------------------------
StatPrefix == <<"r", "e", "g", "u", "l", "a", "r", " ", "f", "i", "l", "e", " ", "4", "2", " ">>
StatErrText == <<"s", "t", "a", "t", ":", " ", "N", "o", " ", "s", "u", "c", "h", " ", "f", "i", "l", "e">>
FsText == <<"/", "r", "o", "o", "t", "\n", "u", "i", "d", "=", "0">>
RsyncPath == <<"/", "u", "s", "r", "/", "b", "i", "n", "/", "r", "s", "y", "n", "c", "\n">>
RsyncErrText == <<"r", "s", "y", "n", "c", " ", "e", "r", "r", "o", "r">>
RsyncOutText == <<"s", "e", "n", "t", " ", "1", "0", " ", "b", "y", "t", "e", "s">>
Blank == <<" ", "\n">>
MarkerOffset == <<"2", "0", "2", "4", "-", "0", "1", "-", "0", "1", "T", "0", "0", ":", "0", "0", ":", "0", "0", "+", "0", "0", ":", "0", "0">>
MarkerPadded == <<" ", "2", "0", "2", "4", "-", "0", "6", "-", "0", "1", "T", "1", "0", ":", "0", "0", ":", "0", "0", "Z", "\n">>
MarkerZulu == <<"2", "0", "2", "4", "-", "0", "6", "-", "0", "1", "T", "1", "0", ":", "0", "0", ":", "0", "0", "Z">>
MarkerNotADate == <<"n", "o", "t", "-", "a", "-", "d", "a", "t", "e">>
MarkerShortMonth == <<"2", "0", "2", "4", "-", "6", "-", "0", "1", "T", "1", "0", ":", "0", "0">>
MarkerShifted == <<"x", "2", "0", "2", "4", "-", "0", "6", "-", "0", "1">>

Logs(out, err) == [stdout |-> out, stderr |-> err]

\* What getLogs() can resolve to for "stat -c '%F %s %n' <path>"
StatLogs(path) ==
    { Logs(Some(StatPrefix \o path \o <<"\n">>), Some(<<>>)),
      Logs(Some(<<>>), Some(StatErrText)) }

\* ... for the filesystem context command
FsLogs == { Logs(Some(FsText), Some(<<>>)), Logs(Undefined, Undefined) }

\* A stream one character longer than MAX_LOG_CHARS
LongText == [i \in 1..(MAX_LOG_CHARS + 1) |-> "e"]

\* ... for "command -v rsync"
RsyncCheckLogs ==
    { Logs(Some(RsyncPath), Some(<<>>)),
      Logs(Some(<<>>), Some(LongText)),
      Logs(Some(<<>>), Some(<<>>)),
      Logs(Some(Blank), Some(<<>>)),
      Logs(Undefined, Undefined) }

\* ... for the rsync pipeline
SyncLogs ==
    { Logs(Some(<<>>), Some(<<>>)),
      Logs(Some(RsyncOutText), Some(<<>>)),
      Logs(Some(RsyncOutText), Some(RsyncErrText)),
      Logs(Undefined, Undefined) }

\* ... for "cat <mount>/.last-sync"
MarkerOutputs ==
    { Some(MarkerOffset), Some(MarkerPadded), Some(MarkerNotADate), Some(<<>>),
      Some(MarkerShortMonth), Some(MarkerShifted), Some(Blank), Undefined }
TimestampLogs == { Logs(out, Some(<<>>)) : out \in MarkerOutputs }

\* A value thrown by a remote call: an Error with a message, or another value.
Thrown == { [isError |-> TRUE, message |-> "transport failure"],
            [isError |-> FALSE, message |-> ""] }

\* err instanceof Error ? err.message : 'Unknown error'
ErrMessage(err) == IF err.isError THEN err.message ELSE "Unknown error"

\* ---------------------------------------------------------------------
\* Remote processes
\* ---------------------------------------------------------------------
InProgress(status) == status = "running" \/ status = "starting"

\* A process handle as the code sees it.  late is a history field: the
\* status became terminal when the local deadline had already passed.
Proc(status, exitCode, late) == [status |-> status, exitCode |-> exitCode, late |-> late]
NoProc == Proc("none", Undefined, FALSE)

\* States a process can be in when startProcess resolves.
StartStates ==
    { Proc("starting", Undefined, FALSE), Proc("running", Undefined, FALSE),
      Proc("completed", Some(0), FALSE), Proc("completed", Some(1), FALSE),
      Proc("error", Undefined, FALSE) }

\* One change of a live process, seen at elapsed time "late or not".
ProcSuccessors(p, isLate) ==
    IF ~InProgress(p.status) THEN {}
    ELSE ( { Proc("completed", Some(c), isLate) : c \in {0, 1} }
           \cup { Proc("error", Undefined, isLate) }
           \cup (IF p.status = "starting" THEN { Proc("running", p.exitCode, FALSE) } ELSE {})
           \cup (IF p.status = "running" /\ p.exitCode = Undefined
                   THEN { Proc("running", Some(0), FALSE) } ELSE {}) )

\* ---------------------------------------------------------------------
\* Pure helpers of the sync module
\* ---------------------------------------------------------------------
\* Variant of truncateOutput: a string of exactly MAX_LOG_CHARS characters is cut too.
truncateOutput_Exclusive(value) ==
    IF Len(value) < MAX_LOG_CHARS THEN value
    ELSE SubSeq(value, 1, MAX_LOG_CHARS) \o <<"\n", ".", ".", ".", "[", "t", "r", "u", "n", "c", "a", "t", "e", "d", "]">>

truncateOutput(value) ==
    IF Len(value) <= MAX_LOG_CHARS THEN value
    ELSE SubSeq(value, 1, MAX_LOG_CHARS) \o <<"\n", ".", ".", ".", "[", "t", "r", "u", "n", "c", "a", "t", "e", "d", "]">>

\* Variant of DidComplete: the presence of an exit code alone decides.
DidComplete_ExitCodeOnly(p) == p.exitCode # Undefined

\* proc.status !== 'running' && proc.status !== 'starting' && typeof proc.exitCode === 'number'
DidComplete(p) == ~InProgress(p.status) /\ p.exitCode # Undefined

\* The CommandResult built at the end of runCommandWithDetails (durationMs
\* is left out).
CommandResult(command, p, logs) ==
    [ command |-> command,
      status |-> p.status,
      exitCode |-> p.exitCode,
      stdout |-> OrEmpty(logs.stdout),
      stderr |-> OrEmpty(logs.stderr),
      didComplete |-> DidComplete(p) ]

\* Variant of ConfigExists: didComplete is not looked at.
ConfigExists_NoDidComplete(r, path) == r.exitCode = Some(0) /\ Includes(r.stdout, path)

\* Variant of ConfigExists: the exit code alone decides.
ConfigExists_ExitCodeOnly(r, path) == r.didComplete /\ r.exitCode = Some(0)

\* result.didComplete && result.exitCode === 0 && result.stdout.includes(path)
ConfigExists(r, path) == r.didComplete /\ r.exitCode = Some(0) /\ Includes(r.stdout, path)

\* checkConfigPath: { ...result, path, exists }
ConfigCheckResult(r, path) ==
    [ command |-> r.command, status |-> r.status, exitCode |-> r.exitCode,
      stdout |-> r.stdout, stderr |-> r.stderr, didComplete |-> r.didComplete,
      path |-> path, exists |-> ConfigExists(r, path) ]

formatCommandResult(r) ==
    [ command |-> r.command, status |-> r.status, exitCode |-> r.exitCode,
      didComplete |-> r.didComplete,
      stdout |-> truncateOutput(r.stdout), stderr |-> truncateOutput(r.stderr) ]

\* Variant of buildConfigCheckDetails: only the first check is reported.
buildConfigCheckDetails_FirstOnly(cs, fs) ==
    [ kind |-> "configCheck",
      triedPaths |-> <<cs[1].path>>,
      checks |-> <<[path |-> cs[1].path, exists |-> cs[1].exists, check |-> formatCommandResult(cs[1])]>>,
      fsContext |-> IF fs.result # Undefined THEN Some(formatCommandResult(Get(fs.result))) ELSE Undefined,
      fsContextError |-> fs.error ]

\* JSON.stringify of the diagnostic object, kept as the object itself.
buildConfigCheckDetails(cs, fs) ==
    [ kind |-> "configCheck",
      triedPaths |-> [i \in DOMAIN cs |-> cs[i].path],
      checks |-> [i \in DOMAIN cs |->
                    [path |-> cs[i].path, exists |-> cs[i].exists, check |-> formatCommandResult(cs[i])]],
      fsContext |-> IF fs.result # Undefined THEN Some(formatCommandResult(Get(fs.result))) ELSE Undefined,
      fsContextError |-> fs.error ]

buildRsyncCheckDetails(r) == [ kind |-> "rsyncCheck", check |-> formatCommandResult(r) ]

\* Variant of RsyncUnavailable: stdout is compared without trimming.
RsyncUnavailable_NoTrim(r) == r.exitCode # Some(0) \/ r.stdout = <<>>

\* rsyncCheck.exitCode !== 0 || rsyncCheck.stdout.trim() === ''
RsyncUnavailable(r) == r.exitCode # Some(0) \/ Trim(r.stdout) = <<>>

\* SyncResult values
Failure(error, details) ==
    [success |-> FALSE, lastSync |-> Undefined, error |-> Some(error), details |-> details]
Success(lastSync) ==
    [success |-> TRUE, lastSync |-> Some(lastSync), error |-> Undefined, details |-> Undefined]
Message(text) == Some([kind |-> "message", text |-> text])
Output(text) == Some([kind |-> "output", text |-> text])

\* The stages of syncCmd, joined by && in the source.
Stage(tool, ifDir, src, dest, excludes) ==
    [tool |-> tool, ifDir |-> ifDir, src |-> src, dest |-> dest, excludes |-> excludes]
syncCmd(dir) ==
    << Stage("rsync -r --no-times --delete", Undefined, dir, "/openclaw/", {"*.lock", "*.log", "*.tmp"}),
       Stage("rsync -r --no-times --delete", Some(WORKSPACE_DIR), WORKSPACE_DIR, "/workspace/", {"skills"}),
       Stage("rsync -r --no-times --delete", Some(WORKSPACE_DIR), WORKSPACE_DIR, "/clawd/", {"skills"}),
       Stage("rsync -r --no-times --delete", Some(SKILLS_DIR), SKILLS_DIR, "/skills/", {}),
       Stage("date -Iseconds >", Undefined, <<>>, "/.last-sync", {}) >>

\* Commands handed to startProcess
Command(name, arg) == [name |-> name, arg |-> arg]
StatCommand(path) == Command("stat", path)
FsCommand == Command("fsContext", <<>>)
RsyncCheckCommand == Command("command -v rsync", <<>>)
SyncCommand(dir) == Command("sync", syncCmd(dir))
CatCommand == Command("cat", <<>>)

\* ---------------------------------------------------------------------
\* State
\* ---------------------------------------------------------------------
VARIABLES
    env,          \* the three R2 settings of MoltbotEnv, each an optional string
    pc,           \* the statement of syncToR2 the invocation is suspended in
    rc,           \* the await pending there: startProcess, waitForProcess, sleep, getLogs
    elapsed,      \* Date.now() minus the time the current command was issued
    procs,        \* the process handles in scope: proc and timestampProc
    checks,       \* the ConfigCheckResults in scope (checkNew, checkLegacy)
    confirmed,    \* history: the ConfigCheckResult whose exists let discovery succeed
    pendingError, \* the error chosen before collectFilesystemContext is awaited
    configDir,    \* let configDir
    rsyncCheck,   \* the CommandResult of the rsync availability check, once built
    timestampLogs,\* the logs of the marker read, once fetched
    started,      \* history: commands handed to sandbox.startProcess, in order
    mountCalls,   \* history: number of calls of mountR2Storage
    result,       \* the SyncResult the promise resolved to, if any
    thrown,       \* the value the promise rejected with, if any
    raised,       \* history: the exception a remote call raised, and the await it was raised at
    markerWriter, \* history: whose write the marker read returned
    syncLogs,     \* the logs of the pipeline process, once fetched
    logCalls,     \* history: the commands whose getLogs() was called, in order
    fnArgs,       \* the arguments of the helper function under examination, if one is
    fnResult      \* what that helper returned, once it has

vars == <<env, pc, rc, elapsed, procs, checks, confirmed, pendingError, configDir, rsyncCheck,
          timestampLogs, started, mountCalls, result, thrown, raised, markerWriter, syncLogs, logCalls,
          fnArgs, fnResult>>

EnvValues == { Undefined, Some(""), Some("set") }

RunCtx == { "checkNew", "checkLegacy", "fsContext", "rsyncCheck" }
SyncCtx == { "sync", "timestamp", "syncLogs" }

\* The handle the invocation is currently waiting on.
Handle(at) == IF at = "timestamp" THEN "timestampProc" ELSE "proc"

\* The timeout passed to waitForProcess / runCommandWithDetails at each site.
Timeout(at) ==
    CASE at \in {"checkNew", "checkLegacy", "fsContext"} -> CONFIG_CHECK_TIMEOUT_MS
      [] at = "rsyncCheck" -> RSYNC_CHECK_TIMEOUT_MS
      [] at = "sync" -> SYNC_TIMEOUT_MS
      [] at = "timestamp" -> TIMESTAMP_TIMEOUT_MS
      [] OTHER -> 0

Init ==
    /\ env \in [R2_ACCESS_KEY_ID : EnvValues, R2_SECRET_ACCESS_KEY : EnvValues, CF_ACCOUNT_ID : EnvValues]
    /\ pc = "entry"
    /\ rc = "none"
    /\ elapsed = 0
    /\ procs = [h \in {"proc", "timestampProc"} |-> NoProc]
    /\ checks = <<>>
    /\ confirmed = Undefined
    /\ pendingError = ""
    /\ configDir = <<>>
    /\ rsyncCheck = Undefined
    /\ timestampLogs = Undefined
    /\ started = <<>>
    /\ mountCalls = 0
    /\ result = Undefined
    /\ thrown = Undefined
    /\ raised = Undefined
    /\ markerWriter = "unread"
    /\ syncLogs = Undefined
    /\ logCalls = <<>>
    /\ fnArgs = Undefined
    /\ fnResult = Undefined

\* sandbox.startProcess(command) is called and awaited; Date.now() was read
\* just before (startedAt).
CallStart(command) ==
    /\ started' = Append(started, command)
    /\ rc' = "startProcess"
    /\ elapsed' = 0

\* A remote call rejects with err while the invocation is suspended in it.
Raise(err) == raised' = Some([at |-> pc, await |-> rc, err |-> err])

\* proc.getLogs() is called on the process of the command started last
\* (when called is false the statement is not reached).
CallGetLogs(called) ==
    logCalls' = IF called THEN Append(logCalls, started[Len(started)].name) ELSE logCalls

\* return <SyncResult>
Return(res) ==
    /\ result' = Some(res)
    /\ pc' = "done"
    /\ rc' = "none"
    /\ elapsed' = 0

\* ---------------------------------------------------------------------
\* syncToR2: precondition and mount
\* ---------------------------------------------------------------------
\* Variant of NotConfigured: the account id is not looked at.
NotConfigured_KeysOnly(e) ==
    ~Truthy(e.R2_ACCESS_KEY_ID) \/ ~Truthy(e.R2_SECRET_ACCESS_KEY)

\* !env.R2_ACCESS_KEY_ID || !env.R2_SECRET_ACCESS_KEY || !env.CF_ACCOUNT_ID
NotConfigured(e) ==
    ~Truthy(e.R2_ACCESS_KEY_ID) \/ ~Truthy(e.R2_SECRET_ACCESS_KEY) \/ ~Truthy(e.CF_ACCOUNT_ID)

Enter ==
    /\ pc = "entry"
    /\ IF NotConfigured(env)
         THEN /\ Return(Failure("R2 storage is not configured", Undefined))
              /\ UNCHANGED mountCalls
         ELSE /\ pc' = "mount"
              /\ mountCalls' = mountCalls + 1
              /\ UNCHANGED <<rc, elapsed, result>>
    /\ UNCHANGED <<env, markerWriter, syncLogs, logCalls, fnArgs, fnResult, raised, timestampLogs, procs, checks, confirmed, pendingError, configDir, rsyncCheck, started, thrown>>

\* await mountR2Storage(sandbox, env) resolves
MountResolved ==
    /\ pc = "mount"
    /\ \E mounted \in BOOLEAN :
         IF ~mounted
           THEN /\ Return(Failure("Failed to mount R2 storage", Undefined))
                /\ UNCHANGED <<configDir, started>>
           ELSE /\ configDir' = OPENCLAW_DIR
                /\ pc' = "checkNew"
                /\ CallStart(StatCommand(OPENCLAW_CONFIG_PATH))
                /\ UNCHANGED result
    /\ UNCHANGED <<env, markerWriter, syncLogs, logCalls, fnArgs, fnResult, raised, timestampLogs, procs, checks, confirmed, pendingError, rsyncCheck, mountCalls, thrown>>

\* await mountR2Storage(sandbox, env) rejects: the call is outside every try
MountThrows ==
    /\ pc = "mount"
    /\ \E err \in Thrown :
         /\ Raise(err)
         /\ thrown' = Some(err)
    /\ pc' = "done"
    /\ UNCHANGED <<env, markerWriter, syncLogs, logCalls, fnArgs, fnResult, timestampLogs, rc, elapsed, procs, checks, confirmed, pendingError, configDir, rsyncCheck,
                   started, mountCalls, result>>

\* ---------------------------------------------------------------------
\* Remote side
\* ---------------------------------------------------------------------
\* The local wait on handle h is over (or h is waited on and past its deadline).
PastDeadline(h) ==
    IF h = Handle(pc) /\ pc \notin {"syncLogs"} THEN elapsed >= Timeout(pc) ELSE TRUE

\* A live process changes status or exit code while the invocation is suspended.
ProcAdvance ==
    /\ pc # "done"
    /\ \E h \in DOMAIN procs :
         \E p \in ProcSuccessors(procs[h], PastDeadline(h)) :
            procs' = [procs EXCEPT ![h] = p]
    /\ UNCHANGED <<env, markerWriter, syncLogs, logCalls, fnArgs, fnResult, raised, timestampLogs, pc, rc, elapsed, checks, confirmed, pendingError, configDir, rsyncCheck,
                   started, mountCalls, result, thrown>>

\* ---------------------------------------------------------------------
\* startProcess, waitForProcess and the polling loop of runCommandWithDetails
\* ---------------------------------------------------------------------
\* waitForProcess (gateway/utils) goes on sleeping: the process is in
\* progress and the budget is not used up
WaitContinues(p, el, timeoutMs) == InProgress(p.status) /\ el < timeoutMs

\* waitForProcess may hand back control: the process is terminal, the budget
\* is used up, or the status is 'starting' (not known to count as in progress)
WaitMayReturn(p, el, timeoutMs) == ~WaitContinues(p, el, timeoutMs) \/ p.status = "starting"

\* (proc.status === 'running' || proc.status === 'starting') && Date.now() < deadline
LoopContinues(p, el, timeoutMs) == InProgress(p.status) /\ el < timeoutMs

\* The statements after await waitForProcess(...) at each call site, up to
\* the next await: the polling loop of runCommandWithDetails, the start of
\* the marker read, the log fetch of the marker read
AfterWait(p, el) ==
    IF pc = "sync"
      THEN /\ pc' = "timestamp"
           /\ CallStart(CatCommand)
           /\ UNCHANGED logCalls
      ELSE /\ rc' = (IF pc \in RunCtx /\ LoopContinues(p, el, Timeout(pc)) THEN "sleep" ELSE "getLogs")
           /\ CallGetLogs(rc' = "getLogs")
           /\ elapsed' = el
           /\ UNCHANGED <<pc, started>>

\* waitForProcess tests the status: it sleeps one more interval or returns
\* to its caller, which runs on
Wait(p, el) ==
    \/ /\ WaitContinues(p, el, Timeout(pc))
       /\ rc' = "waitForProcess"
       /\ elapsed' = el
       /\ UNCHANGED <<pc, started, logCalls>>
    \/ /\ WaitMayReturn(p, el, Timeout(pc))
       /\ AfterWait(p, el)

\* await sandbox.startProcess(command) resolves; waitForProcess is called
StartResolved ==
    /\ rc = "startProcess"
    /\ \E p \in StartStates :
         /\ procs' = [procs EXCEPT ![Handle(pc)] = p]
         /\ Wait(p, elapsed)
    /\ UNCHANGED <<env, markerWriter, syncLogs, fnArgs, fnResult, raised, timestampLogs, checks, confirmed, pendingError, configDir, rsyncCheck,
                   mountCalls, result, thrown>>

\* the sleep inside waitForProcess resolves
WaitPoll ==
    /\ rc = "waitForProcess"
    /\ Wait(procs[Handle(pc)], elapsed + POLL_INTERVAL_MS)
    /\ UNCHANGED <<env, markerWriter, syncLogs, fnArgs, fnResult, raised, timestampLogs, procs, checks, confirmed, pendingError, configDir, rsyncCheck,
                   mountCalls, result, thrown>>

\* Variant of SleepResolved: startedAt is read again on every turn of the
\* loop, so the deadline moves with the clock.
SleepResolved_DeadlineMoves ==
    /\ pc \in RunCtx
    /\ rc = "sleep"
    /\ elapsed' = 0
    /\ rc' = IF LoopContinues(procs[Handle(pc)], elapsed', Timeout(pc)) THEN "sleep" ELSE "getLogs"
    /\ CallGetLogs(rc' = "getLogs")
    /\ UNCHANGED <<env, markerWriter, syncLogs, fnArgs, fnResult, raised, timestampLogs, pc, procs, checks, confirmed, pendingError, configDir, rsyncCheck,
                   started, mountCalls, result, thrown>>

\* runCommandWithDetails: await sleep(POLL_INTERVAL_MS) resolves, the while
\* condition is tested again
SleepResolved ==
    /\ pc \in RunCtx
    /\ rc = "sleep"
    /\ elapsed' = elapsed + POLL_INTERVAL_MS
    /\ rc' = IF LoopContinues(procs[Handle(pc)], elapsed', Timeout(pc)) THEN "sleep" ELSE "getLogs"
    /\ CallGetLogs(rc' = "getLogs")
    /\ UNCHANGED <<env, markerWriter, syncLogs, fnArgs, fnResult, raised, timestampLogs, pc, procs, checks, confirmed, pendingError, configDir, rsyncCheck,
                   started, mountCalls, result, thrown>>

\* ---------------------------------------------------------------------
\* syncToR2: config discovery
\* ---------------------------------------------------------------------
Drop(h) == procs' = [procs EXCEPT ![h] = NoProc]

\* Variant of ConfigFailure: incomplete only when both probes are.
ConfigFailure_BothIncomplete(checkNew, checkLegacy) ==
    IF ~checkNew.didComplete /\ ~checkLegacy.didComplete
      THEN "Sync aborted: config check did not complete"
      ELSE "Sync aborted: no config file found"

\* The branch taken when neither probe reports the config
ConfigFailure(checkNew, checkLegacy) ==
    IF ~checkNew.didComplete \/ ~checkLegacy.didComplete
      THEN "Sync aborted: config check did not complete"
      ELSE "Sync aborted: no config file found"

\* Variant of CheckNewDone: a confirmed config leads straight to the pipeline,
\* without the rsync availability check.
CheckNewDone_SkipRsyncCheck ==
    /\ pc = "checkNew"
    /\ rc = "getLogs"
    /\ \E logs \in StatLogs(OPENCLAW_CONFIG_PATH) :
         LET checkNew == ConfigCheckResult(
                 CommandResult(StatCommand(OPENCLAW_CONFIG_PATH), procs["proc"], logs),
                 OPENCLAW_CONFIG_PATH)
         IN /\ IF checkNew.exists
                 THEN /\ configDir' = OPENCLAW_DIR
                      /\ checks' = <<>>
                      /\ confirmed' = Some(checkNew)
                      /\ pc' = "sync"
                      /\ CallStart(SyncCommand(OPENCLAW_DIR))
                 ELSE /\ pc' = "checkLegacy"
                      /\ CallStart(StatCommand(CLAWDBOT_CONFIG_PATH))
                      /\ checks' = <<checkNew>>
                      /\ UNCHANGED <<configDir, confirmed>>
    /\ Drop("proc")
    /\ UNCHANGED <<env, markerWriter, syncLogs, logCalls, fnArgs, fnResult, raised, timestampLogs, pendingError, rsyncCheck, mountCalls, result, thrown>>

\* checkConfigPath(OPENCLAW_CONFIG_PATH) returns: getLogs resolved, the result is built
CheckNewDone ==
    /\ pc = "checkNew"
    /\ rc = "getLogs"
    /\ \E logs \in StatLogs(OPENCLAW_CONFIG_PATH) :
         LET checkNew == ConfigCheckResult(
                 CommandResult(StatCommand(OPENCLAW_CONFIG_PATH), procs["proc"], logs),
                 OPENCLAW_CONFIG_PATH)
         IN /\ IF checkNew.exists
                 THEN /\ configDir' = OPENCLAW_DIR
                      /\ checks' = <<>>
                      /\ confirmed' = Some(checkNew)
                      /\ pc' = "rsyncCheck"
                      /\ CallStart(RsyncCheckCommand)
                 ELSE /\ pc' = "checkLegacy"
                      /\ CallStart(StatCommand(CLAWDBOT_CONFIG_PATH))
                      /\ checks' = <<checkNew>>
                      /\ UNCHANGED <<configDir, confirmed>>
    /\ Drop("proc")
    /\ UNCHANGED <<env, markerWriter, syncLogs, logCalls, fnArgs, fnResult, raised, timestampLogs, pendingError, rsyncCheck, mountCalls, result, thrown>>

\* Variant of CheckLegacyDone: configDir is not switched to the legacy directory.
CheckLegacyDone_KeepsConfigDir ==
    /\ pc = "checkLegacy"
    /\ rc = "getLogs"
    /\ \E logs \in StatLogs(CLAWDBOT_CONFIG_PATH) :
         LET checkLegacy == ConfigCheckResult(
                 CommandResult(StatCommand(CLAWDBOT_CONFIG_PATH), procs["proc"], logs),
                 CLAWDBOT_CONFIG_PATH)
         IN /\ IF checkLegacy.exists
                 THEN /\ checks' = <<>>
                      /\ confirmed' = Some(checkLegacy)
                      /\ pc' = "rsyncCheck"
                      /\ CallStart(RsyncCheckCommand)
                      /\ UNCHANGED <<pendingError, configDir>>
                 ELSE /\ pendingError' = ConfigFailure(checks[1], checkLegacy)
                      /\ pc' = "fsContext"
                      /\ CallStart(FsCommand)
                      /\ checks' = Append(checks, checkLegacy)
                      /\ UNCHANGED <<configDir, confirmed>>
    /\ Drop("proc")
    /\ UNCHANGED <<env, markerWriter, syncLogs, logCalls, fnArgs, fnResult, raised, timestampLogs, rsyncCheck, mountCalls, result, thrown>>

\* checkConfigPath(CLAWDBOT_CONFIG_PATH) returns
CheckLegacyDone ==
    /\ pc = "checkLegacy"
    /\ rc = "getLogs"
    /\ \E logs \in StatLogs(CLAWDBOT_CONFIG_PATH) :
         LET checkLegacy == ConfigCheckResult(
                 CommandResult(StatCommand(CLAWDBOT_CONFIG_PATH), procs["proc"], logs),
                 CLAWDBOT_CONFIG_PATH)
         IN /\ IF checkLegacy.exists
                 THEN /\ configDir' = CLAWDBOT_DIR
                      /\ checks' = <<>>
                      /\ confirmed' = Some(checkLegacy)
                      /\ pc' = "rsyncCheck"
                      /\ CallStart(RsyncCheckCommand)
                      /\ UNCHANGED pendingError
                 ELSE /\ pendingError' = ConfigFailure(checks[1], checkLegacy)
                      /\ pc' = "fsContext"
                      /\ CallStart(FsCommand)
                      /\ checks' = Append(checks, checkLegacy)
                      /\ UNCHANGED <<configDir, confirmed>>
    /\ Drop("proc")
    /\ UNCHANGED <<env, markerWriter, syncLogs, logCalls, fnArgs, fnResult, raised, timestampLogs, rsyncCheck, mountCalls, result, thrown>>

\* collectFilesystemContext returns { result }; syncToR2 returns the failure
FsContextDone ==
    /\ pc = "fsContext"
    /\ rc = "getLogs"
    /\ \E logs \in FsLogs :
         Return(Failure(pendingError,
                  Some(buildConfigCheckDetails(checks,
                         [result |-> Some(CommandResult(FsCommand, procs["proc"], logs)),
                          error |-> Undefined]))))
    /\ Drop("proc")
    /\ UNCHANGED <<env, markerWriter, syncLogs, logCalls, fnArgs, fnResult, raised, timestampLogs, checks, confirmed, pendingError, configDir, rsyncCheck, started, mountCalls, thrown>>

\* Variant of FsContextThrows: collectFilesystemContext has no try of its
\* own, the exception reaches the catch of config discovery.
FsContextThrows_Propagates ==
    /\ pc = "fsContext"
    /\ rc \in {"startProcess", "waitForProcess", "getLogs"}
    /\ \E err \in Thrown :
         /\ Raise(err)
         /\ Return(Failure("Failed to verify source files", Message(ErrMessage(err))))
    /\ Drop("proc")
    /\ UNCHANGED <<env, markerWriter, syncLogs, logCalls, fnArgs, fnResult, timestampLogs, checks, confirmed, pendingError, configDir, rsyncCheck, started, mountCalls, thrown>>

\* A remote call inside collectFilesystemContext throws: caught there,
\* { error } is returned, syncToR2 returns the failure
FsContextThrows ==
    /\ pc = "fsContext"
    /\ rc \in {"startProcess", "waitForProcess", "getLogs"}
    /\ \E err \in Thrown :
         /\ Raise(err)
         /\ Return(Failure(pendingError,
                  Some(buildConfigCheckDetails(checks,
                         [result |-> Undefined, error |-> Some(ErrMessage(err))]))))
    /\ Drop("proc")
    /\ UNCHANGED <<env, markerWriter, syncLogs, logCalls, fnArgs, fnResult, timestampLogs, checks, confirmed, pendingError, configDir, rsyncCheck, started, mountCalls, thrown>>

\* Variant of CheckThrows: the probe is started again after an exception.
CheckThrows_Retries ==
    /\ pc \in {"checkNew", "checkLegacy"}
    /\ rc \in {"startProcess", "waitForProcess", "getLogs"}
    /\ \E err \in Thrown : Raise(err)
    /\ CallStart(started[Len(started)])
    /\ Drop("proc")
    /\ UNCHANGED <<env, markerWriter, syncLogs, logCalls, fnArgs, fnResult, timestampLogs, pc, checks, confirmed, pendingError, configDir, rsyncCheck, mountCalls, result, thrown>>

\* A remote call inside checkConfigPath throws: caught by the first try of syncToR2
CheckThrows ==
    /\ pc \in {"checkNew", "checkLegacy"}
    /\ rc \in {"startProcess", "waitForProcess", "getLogs"}
    /\ \E err \in Thrown :
         /\ Raise(err)
         /\ Return(Failure("Failed to verify source files", Message(ErrMessage(err))))
    /\ Drop("proc")
    /\ UNCHANGED <<env, markerWriter, syncLogs, logCalls, fnArgs, fnResult, timestampLogs, checks, confirmed, pendingError, configDir, rsyncCheck, started, mountCalls, thrown>>

\* ---------------------------------------------------------------------
\* syncToR2: rsync availability
\* ---------------------------------------------------------------------
RsyncCheckDone ==
    /\ pc = "rsyncCheck"
    /\ rc = "getLogs"
    /\ \E logs \in RsyncCheckLogs :
         LET check == CommandResult(RsyncCheckCommand, procs["proc"], logs)
         IN /\ rsyncCheck' = Some(check)
            /\ IF ~check.didComplete
                 THEN /\ Return(Failure("Sync aborted: rsync check did not complete",
                                        Some(buildRsyncCheckDetails(check))))
                      /\ UNCHANGED started
                 ELSE IF RsyncUnavailable(check)
                 THEN /\ Return(Failure("Sync aborted: rsync is not available",
                                        Some(buildRsyncCheckDetails(check))))
                      /\ UNCHANGED started
                 ELSE /\ pc' = "sync"
                      /\ CallStart(SyncCommand(configDir))
                      /\ UNCHANGED result
    /\ Drop("proc")
    /\ UNCHANGED <<env, markerWriter, syncLogs, logCalls, fnArgs, fnResult, raised, timestampLogs, checks, confirmed, pendingError, configDir, mountCalls, thrown>>

\* Variant of RsyncCheckThrows: the rsync check shares the try of the pipeline.
RsyncCheckThrows_SharedCatch ==
    /\ pc = "rsyncCheck"
    /\ rc \in {"startProcess", "waitForProcess", "getLogs"}
    /\ \E err \in Thrown :
         /\ Raise(err)
         /\ Return(Failure("Sync error", Message(ErrMessage(err))))
    /\ Drop("proc")
    /\ UNCHANGED <<env, markerWriter, syncLogs, logCalls, fnArgs, fnResult, timestampLogs, checks, confirmed, pendingError, configDir, rsyncCheck, started, mountCalls, thrown>>

\* A remote call of the rsync check throws: caught by the second try
RsyncCheckThrows ==
    /\ pc = "rsyncCheck"
    /\ rc \in {"startProcess", "waitForProcess", "getLogs"}
    /\ \E err \in Thrown :
         /\ Raise(err)
         /\ Return(Failure("Sync aborted: rsync check failed", Message(ErrMessage(err))))
    /\ Drop("proc")
    /\ UNCHANGED <<env, markerWriter, syncLogs, logCalls, fnArgs, fnResult, timestampLogs, checks, confirmed, pendingError, configDir, rsyncCheck, started, mountCalls, thrown>>

\* ---------------------------------------------------------------------
\* syncToR2: pipeline and marker verification
\* ---------------------------------------------------------------------
\* The pipeline process p has run syncCmd to its end: every stage of the &&
\* chain, the marker write last, returned 0.
PipelineSucceeded(p) == p.status = "completed" /\ p.exitCode = Some(0)

\* Variant of MarkerWriters: the marker write is not chained to the copies
\* (";" in place of the last "&&"), so the pipeline leaves a marker whatever
\* its exit code.
MarkerWriters_Unchained(logs, p) ==
    IF OrEmpty(logs.stdout) = <<>> THEN {"nobody"}
    ELSE {"earlier"} \cup
         (IF p.status = "completed" /\ logs.stdout = Some(MarkerOffset) THEN {"pipeline"} ELSE {})

\* Whose write "cat <mount>/.last-sync" can have printed: nobody's when it
\* printed nothing, the marker write of this invocation's syncCmd ("date
\* -Iseconds >", reached only when the whole chain succeeded), or what an
\* earlier run left in the bucket, which nothing in syncToR2 removes.
MarkerWriters(logs, p) ==
    IF OrEmpty(logs.stdout) = <<>> THEN {"nobody"}
    ELSE {"earlier"} \cup
         (IF PipelineSucceeded(p) /\ logs.stdout = Some(MarkerOffset) THEN {"pipeline"} ELSE {})

\* await timestampProc.getLogs() resolves; the marker is validated
TimestampLogsResolved ==
    /\ pc = "timestamp"
    /\ rc = "getLogs"
    /\ \E logs \in TimestampLogs :
         LET lastSync == TrimOpt(logs.stdout)
         IN /\ timestampLogs' = Some(logs)
            /\ markerWriter' \in MarkerWriters(logs, procs["proc"])
            /\ IF TimestampValid(lastSync)
                 THEN /\ Return(Success(Get(lastSync)))
                      /\ UNCHANGED logCalls
                 ELSE /\ pc' = "syncLogs"
                      /\ rc' = "getLogs"
                      /\ logCalls' = Append(logCalls, "sync")
                      /\ UNCHANGED <<elapsed, result>>
    /\ UNCHANGED <<env, syncLogs, fnArgs, fnResult, raised, procs, checks, confirmed, pendingError, configDir, rsyncCheck, started,
                   mountCalls, thrown>>

\* Variant of SyncFailureDetails: stdout is preferred to stderr.
SyncFailureDetails_StdoutFirst(logs) ==
    IF OrEmpty(logs.stdout) # <<>> THEN Output(Get(logs.stdout))
    ELSE IF OrEmpty(logs.stderr) # <<>> THEN Output(Get(logs.stderr))
    ELSE Message("No timestamp file created")

\* logs.stderr || logs.stdout || 'No timestamp file created'
SyncFailureDetails(logs) ==
    IF OrEmpty(logs.stderr) # <<>> THEN Output(Get(logs.stderr))
    ELSE IF OrEmpty(logs.stdout) # <<>> THEN Output(Get(logs.stdout))
    ELSE Message("No timestamp file created")

\* await proc.getLogs() resolves after a failed verification
SyncLogsResolved ==
    /\ pc = "syncLogs"
    /\ rc = "getLogs"
    /\ \E logs \in SyncLogs :
         /\ syncLogs' = Some(logs)
         /\ Return(Failure("Sync failed", SyncFailureDetails(logs)))
    /\ UNCHANGED <<env, markerWriter, logCalls, fnArgs, fnResult, raised, timestampLogs, procs, checks, confirmed, pendingError, configDir, rsyncCheck, started,
                   mountCalls, thrown>>

\* A remote call of the pipeline stage throws: caught by the third try
SyncThrows ==
    /\ pc \in SyncCtx
    /\ rc \in {"startProcess", "waitForProcess", "getLogs"}
    /\ \E err \in Thrown :
         /\ Raise(err)
         /\ Return(Failure("Sync error", Message(ErrMessage(err))))
    /\ UNCHANGED <<env, markerWriter, syncLogs, logCalls, fnArgs, fnResult, timestampLogs, procs, checks, confirmed, pendingError, configDir, rsyncCheck, started,
                   mountCalls, thrown>>

Next ==
    \/ Enter
    \/ MountResolved
    \/ MountThrows
    \/ ProcAdvance
    \/ StartResolved
    \/ WaitPoll
    \/ SleepResolved
    \/ CheckNewDone
    \/ CheckLegacyDone
    \/ FsContextDone
    \/ FsContextThrows
    \/ CheckThrows
    \/ RsyncCheckDone
    \/ RsyncCheckThrows
    \/ TimestampLogsResolved
    \/ SyncLogsResolved
    \/ SyncThrows

Spec == Init /\ [][Next]_vars

\* The steps of the invocation in which the pending remote call or sleep
\* resolves.
RemoteCallsReturn ==
    \/ Enter
    \/ MountResolved
    \/ StartResolved
    \/ WaitPoll
    \/ SleepResolved
    \/ CheckNewDone
    \/ CheckLegacyDone
    \/ FsContextDone
    \/ RsyncCheckDone
    \/ TimestampLogsResolved
    \/ SyncLogsResolved

NextReturning ==
    \/ RemoteCallsReturn
    \/ ProcAdvance

\* Every remote call returns and the clock advances; a remote process need
\* not ever terminate.
SpecReturning == Init /\ [][NextReturning]_vars /\ WF_vars(RemoteCallsReturn)

TypeOK ==
    /\ pc \in {"entry", "mount", "done"} \cup RunCtx \cup SyncCtx
    /\ rc \in {"none", "startProcess", "waitForProcess", "sleep", "getLogs"}
    /\ elapsed \in 0..(SYNC_TIMEOUT_MS + POLL_INTERVAL_MS)
    /\ Len(checks) <= 2
    /\ Len(started) <= 5
    /\ mountCalls \in 0..1
    /\ Cardinality(result) <= 1
    /\ Cardinality(thrown) <= 1
    /\ markerWriter \in {"unread", "nobody", "earlier", "pipeline"}
    /\ Len(logCalls) <= Len(started)

\* =====================================================================
\* Helper functions called on their own
\* =====================================================================
\* The state of syncToR2, untouched while a helper is called on its own.
syncVars == <<env, pc, rc, elapsed, procs, checks, confirmed, pendingError, configDir, rsyncCheck,
              timestampLogs, started, mountCalls, result, thrown, raised, markerWriter, syncLogs, logCalls>>

\* No invocation of syncToR2 has been made.
NoInvocation ==
    /\ env = [R2_ACCESS_KEY_ID |-> Undefined, R2_SECRET_ACCESS_KEY |-> Undefined, CF_ACCOUNT_ID |-> Undefined]
    /\ pc = "entry"
    /\ rc = "none"
    /\ elapsed = 0
    /\ procs = [h \in {"proc", "timestampProc"} |-> NoProc]
    /\ checks = <<>>
    /\ confirmed = Undefined
    /\ pendingError = ""
    /\ configDir = <<>>
    /\ rsyncCheck = Undefined
    /\ timestampLogs = Undefined
    /\ started = <<>>
    /\ mountCalls = 0
    /\ result = Undefined
    /\ thrown = Undefined
    /\ raised = Undefined
    /\ markerWriter = "unread"
    /\ syncLogs = Undefined
    /\ logCalls = <<>>

\* The helper fn is called with the pending arguments and returns.
Pending(fn) == fnArgs # Undefined /\ Get(fnArgs).fn = fn /\ fnResult = Undefined
Returned(fn) == fnArgs # Undefined /\ Get(fnArgs).fn = fn /\ fnResult # Undefined
Args == Get(fnArgs)
Ret == Get(fnResult)

\* ---------------------------------------------------------------------
\* truncateOutput
\* ---------------------------------------------------------------------
\* Lengths examined around MAX_LOG_CHARS
TruncateSpan == 15

DecimalDigits == <<"0", "1", "2", "3", "4", "5", "6", "7", "8", "9">>

\* A string of n characters: one character repeated, or the last decimal
\* digit of each position.
Fill(n, c) == [i \in 1..n |-> c]
Numbered(n) == [i \in 1..n |-> DecimalDigits[(i % 10) + 1]]

TruncateLengths ==
    {0, 1, MAX_LOG_CHARS + 500}
      \cup ((MAX_LOG_CHARS - TruncateSpan)..(MAX_LOG_CHARS + TruncateSpan))
TruncateInputs == { Fill(n, "x") : n \in TruncateLengths } \cup { Numbered(n) : n \in TruncateLengths }

InitTruncate ==
    /\ NoInvocation
    /\ fnArgs \in { Some([fn |-> "truncateOutput", value |-> v]) : v \in TruncateInputs }
    /\ fnResult = Undefined

CallTruncateOutput ==
    /\ Pending("truncateOutput")
    /\ fnResult' = Some(truncateOutput(Args.value))
    /\ UNCHANGED <<syncVars, fnArgs>>

NextTruncate == CallTruncateOutput

SpecTruncate == InitTruncate /\ [][NextTruncate]_vars

\* ---------------------------------------------------------------------
\* buildEnvVars (gateway/cli.ts)
\* ---------------------------------------------------------------------
\* The fields of MoltbotEnv read by buildEnvVars and validateRequiredEnv;
\* each is an optional string.
MoltbotEnvKeys ==
    { "CLOUDFLARE_AI_GATEWAY_API_KEY", "CF_AI_GATEWAY_ACCOUNT_ID", "CF_AI_GATEWAY_GATEWAY_ID",
      "CF_AI_GATEWAY_MODEL", "AI_GATEWAY_API_KEY", "AI_GATEWAY_BASE_URL", "ANTHROPIC_API_KEY",
      "ANTHROPIC_BASE_URL", "OPENAI_API_KEY", "OPENAI_CODEX_OAUTH", "BRAVE_API_KEY",
      "OPENCLAW_GATEWAY_TOKEN", "MOLTBOT_GATEWAY_TOKEN", "CLAWDBOT_GATEWAY_TOKEN", "DEV_MODE",
      "E2E_TEST_MODE", "TELEGRAM_BOT_TOKEN", "TELEGRAM_DM_POLICY", "DISCORD_BOT_TOKEN",
      "DISCORD_DM_POLICY", "SLACK_BOT_TOKEN", "SLACK_APP_TOKEN", "CF_ACCESS_TEAM_DOMAIN",
      "CF_ACCESS_AUD", "CF_ACCOUNT_ID", "CDP_SECRET", "WORKER_URL" }

\* if (env.X): defined and not the empty string
IsSet(o) == o # Undefined /\ Get(o) # <<>>

\* if (env.X) envVars.X = env.X
PassThrough(o) == IF IsSet(o) THEN o ELSE Undefined

\* Variant of StripTrailingSlashes: one trailing slash is removed.
StripTrailingSlashes_One(s) ==
    IF s # <<>> /\ s[Len(s)] = "/" THEN SubSeq(s, 1, Len(s) - 1) ELSE s

\* replace(/\/+$/, '')
RECURSIVE StripTrailingSlashes(_)
StripTrailingSlashes(s) ==
    IF s # <<>> /\ s[Len(s)] = "/" THEN StripTrailingSlashes(SubSeq(s, 1, Len(s) - 1)) ELSE s

\* String.prototype.endsWith
EndsWith(s, suffix) ==
    Len(s) >= Len(suffix) /\ SubSeq(s, Len(s) - Len(suffix) + 1, Len(s)) = suffix

\* env.OPENCLAW_GATEWAY_TOKEN ?? env.MOLTBOT_GATEWAY_TOKEN ?? env.CLAWDBOT_GATEWAY_TOKEN
GatewayToken(e) ==
    IF e.OPENCLAW_GATEWAY_TOKEN # Undefined THEN e.OPENCLAW_GATEWAY_TOKEN
    ELSE IF e.MOLTBOT_GATEWAY_TOKEN # Undefined THEN e.MOLTBOT_GATEWAY_TOKEN
    ELSE e.CLAWDBOT_GATEWAY_TOKEN

\* The record returned by buildEnvVars; a key that was not assigned is Undefined.
buildEnvVars(e) ==
    LET legacyGateway == IsSet(e.AI_GATEWAY_API_KEY) /\ IsSet(e.AI_GATEWAY_BASE_URL)
        normalizedBaseUrl == StripTrailingSlashes(Get(e.AI_GATEWAY_BASE_URL))
        isOpenAIGateway == EndsWith(normalizedBaseUrl, <<"/", "o", "p", "e", "n", "a", "i">>)
        gatewayToken == GatewayToken(e)
    IN  [ CLOUDFLARE_AI_GATEWAY_API_KEY |-> PassThrough(e.CLOUDFLARE_AI_GATEWAY_API_KEY),
          CF_AI_GATEWAY_ACCOUNT_ID |-> PassThrough(e.CF_AI_GATEWAY_ACCOUNT_ID),
          CF_AI_GATEWAY_GATEWAY_ID |-> PassThrough(e.CF_AI_GATEWAY_GATEWAY_ID),
          OPENAI_CODEX_OAUTH |-> PassThrough(e.OPENAI_CODEX_OAUTH),
          ANTHROPIC_API_KEY |->
              IF legacyGateway /\ ~isOpenAIGateway THEN e.AI_GATEWAY_API_KEY
              ELSE PassThrough(e.ANTHROPIC_API_KEY),
          OPENAI_API_KEY |->
              IF legacyGateway /\ isOpenAIGateway
                THEN (IF IsSet(e.OPENAI_API_KEY) THEN e.OPENAI_API_KEY ELSE e.AI_GATEWAY_API_KEY)
                ELSE PassThrough(e.OPENAI_API_KEY),
          AI_GATEWAY_BASE_URL |-> IF legacyGateway THEN Some(normalizedBaseUrl) ELSE Undefined,
          AI_GATEWAY_API_KEY |->
              IF legacyGateway /\ isOpenAIGateway /\ IsSet(e.OPENAI_API_KEY) THEN e.AI_GATEWAY_API_KEY
              ELSE Undefined,
          OPENAI_BASE_URL |->
              IF legacyGateway /\ isOpenAIGateway THEN Some(normalizedBaseUrl) ELSE Undefined,
          ANTHROPIC_BASE_URL |->
              IF legacyGateway
                THEN (IF isOpenAIGateway THEN Undefined ELSE Some(normalizedBaseUrl))
                ELSE PassThrough(e.ANTHROPIC_BASE_URL),
          OPENCLAW_GATEWAY_TOKEN |-> IF IsSet(gatewayToken) THEN gatewayToken ELSE Undefined,
          CLAWDBOT_GATEWAY_TOKEN |-> IF IsSet(gatewayToken) THEN gatewayToken ELSE Undefined,
          OPENCLAW_DEV_MODE |-> PassThrough(e.DEV_MODE),
          TELEGRAM_BOT_TOKEN |-> PassThrough(e.TELEGRAM_BOT_TOKEN),
          TELEGRAM_DM_POLICY |-> PassThrough(e.TELEGRAM_DM_POLICY),
          DISCORD_BOT_TOKEN |-> PassThrough(e.DISCORD_BOT_TOKEN),
          DISCORD_DM_POLICY |-> PassThrough(e.DISCORD_DM_POLICY),
          SLACK_BOT_TOKEN |-> PassThrough(e.SLACK_BOT_TOKEN),
          SLACK_APP_TOKEN |-> PassThrough(e.SLACK_APP_TOKEN),
          CF_AI_GATEWAY_MODEL |-> PassThrough(e.CF_AI_GATEWAY_MODEL),
          CF_ACCOUNT_ID |-> PassThrough(e.CF_ACCOUNT_ID),
          BRAVE_API_KEY |-> PassThrough(e.BRAVE_API_KEY),
          CDP_SECRET |-> PassThrough(e.CDP_SECRET),
          WORKER_URL |-> PassThrough(e.WORKER_URL) ]

\* Environments handed to buildEnvVars
Merge(a, b) == [k \in DOMAIN a \cup DOMAIN b |-> IF k \in DOMAIN b THEN b[k] ELSE a[k]]
EmptyEnv == [k \in MoltbotEnvKeys |-> Undefined]

OpenclawToken == <<"o", "c", "-", "t", "o", "k", "e", "n">>
MoltbotToken == <<"m", "b", "-", "t", "o", "k", "e", "n">>
ClawdbotToken == <<"c", "b", "-", "t", "o", "k", "e", "n">>
TokenEnvs ==
    [ OPENCLAW_GATEWAY_TOKEN : {Undefined, Some(<<>>), Some(OpenclawToken)},
      MOLTBOT_GATEWAY_TOKEN : {Undefined, Some(<<>>), Some(MoltbotToken)},
      CLAWDBOT_GATEWAY_TOKEN : {Undefined, Some(<<>>), Some(ClawdbotToken)} ]

GatewayKey == <<"g", "a", "t", "e", "w", "a", "y", "-", "k", "e", "y">>
DirectKey == <<"d", "i", "r", "e", "c", "t", "-", "k", "e", "y">>
AnthropicKey == <<"s", "k", "-", "a", "n", "t">>
OpenAIUrl == <<"h", "t", "t", "p", "s", ":", "/", "/", "g", "w", ".", "e", "x", "a", "m", "p", "l", "e", "/", "o", "p", "e", "n", "a", "i">>
AnthropicUrl == <<"h", "t", "t", "p", "s", ":", "/", "/", "g", "w", ".", "e", "x", "a", "m", "p", "l", "e", "/", "a", "n", "t", "h", "r", "o", "p", "i", "c">>
OpenAISubpathUrl == <<"h", "t", "t", "p", "s", ":", "/", "/", "g", "w", ".", "e", "x", "a", "m", "p", "l", "e", "/", "o", "p", "e", "n", "a", "i", "/", "v", "1">>
AnthropicApiUrl == <<"h", "t", "t", "p", "s", ":", "/", "/", "a", "p", "i", ".", "a", "n", "t", "h", "r", "o", "p", "i", "c", ".", "c", "o", "m", "/">>
GatewayBaseUrls ==
    { Undefined, Some(<<>>), Some(<<"/", "/">>),
      Some(OpenAIUrl), Some(OpenAIUrl \o <<"/">>), Some(OpenAIUrl \o <<"/", "/", "/">>),
      Some(AnthropicUrl), Some(AnthropicUrl \o <<"/", "/", "/">>), Some(OpenAISubpathUrl) }
LegacyGatewayEnvs ==
    [ AI_GATEWAY_API_KEY : {Undefined, Some(<<>>), Some(GatewayKey)},
      AI_GATEWAY_BASE_URL : GatewayBaseUrls,
      OPENAI_API_KEY : {Undefined, Some(<<>>), Some(DirectKey)},
      ANTHROPIC_API_KEY : {Undefined, Some(AnthropicKey)},
      ANTHROPIC_BASE_URL : {Undefined, Some(<<>>), Some(AnthropicApiUrl)} ]

\* Every remaining field set, or none
OtherValue == <<"v", "a", "l", "u", "e">>
OtherKeys ==
    MoltbotEnvKeys \ { "OPENCLAW_GATEWAY_TOKEN", "MOLTBOT_GATEWAY_TOKEN", "CLAWDBOT_GATEWAY_TOKEN",
                       "AI_GATEWAY_API_KEY", "AI_GATEWAY_BASE_URL", "OPENAI_API_KEY",
                       "ANTHROPIC_API_KEY", "ANTHROPIC_BASE_URL" }
OtherEnvs == { [k \in OtherKeys |-> v] : v \in {Undefined, Some(OtherValue)} }

BuildEnvInputs ==
    { Merge(Merge(Merge(EmptyEnv, t), g), o) : t \in TokenEnvs, g \in LegacyGatewayEnvs, o \in OtherEnvs }

InitBuildEnv ==
    /\ NoInvocation
    /\ fnArgs \in { Some([fn |-> "buildEnvVars", env |-> e]) : e \in BuildEnvInputs }
    /\ fnResult = Undefined

CallBuildEnvVars ==
    /\ Pending("buildEnvVars")
    /\ fnResult' = Some(buildEnvVars(Args.env))
    /\ UNCHANGED <<syncVars, fnArgs>>

NextBuildEnv == CallBuildEnvVars

SpecBuildEnv == InitBuildEnv /\ [][NextBuildEnv]_vars

\* ---------------------------------------------------------------------
\* validateRequiredEnv (env-validation.ts)
\* ---------------------------------------------------------------------
UpperCaseLetters == <<"A", "B", "C", "D", "E", "F", "G", "H", "I", "J", "K", "L", "M", "N", "O", "P", "Q", "R", "S", "T", "U", "V", "W", "X", "Y", "Z">>
LowerCaseLetters == <<"a", "b", "c", "d", "e", "f", "g", "h", "i", "j", "k", "l", "m", "n", "o", "p", "q", "r", "s", "t", "u", "v", "w", "x", "y", "z">>

\* String.prototype.toLowerCase
ToLowerCase(s) ==
    [i \in 1..Len(s) |->
        IF \E n \in 1..26 : UpperCaseLetters[n] = s[i]
          THEN LowerCaseLetters[CHOOSE n \in 1..26 : UpperCaseLetters[n] = s[i]]
          ELSE s[i]]

isTruthyFlag(value) ==
    IF ~IsSet(value) THEN FALSE
    ELSE LET normalized == ToLowerCase(Trim(Get(value)))
         IN normalized = <<"1">> \/ normalized = <<"t", "r", "u", "e">>

MissingGatewayToken == "OPENCLAW_GATEWAY_TOKEN (or legacy MOLTBOT/CLAWDBOT)"
MissingProvider == "ANTHROPIC_API_KEY, OPENAI_API_KEY, OPENAI_CODEX_OAUTH, or CLOUDFLARE_AI_GATEWAY_API_KEY + CF_AI_GATEWAY_ACCOUNT_ID + CF_AI_GATEWAY_GATEWAY_ID"

\* env.DEV_MODE === 'true' || env.E2E_TEST_MODE === 'true'
IsTestMode(e) ==
    e.DEV_MODE = Some(<<"t", "r", "u", "e">>) \/ e.E2E_TEST_MODE = Some(<<"t", "r", "u", "e">>)

\* Variant of RequiredGatewayToken: the first non-empty alias (an || chain).
RequiredGatewayToken_FirstNonEmpty(e) ==
    IF IsSet(e.OPENCLAW_GATEWAY_TOKEN) THEN e.OPENCLAW_GATEWAY_TOKEN
    ELSE IF IsSet(e.MOLTBOT_GATEWAY_TOKEN) THEN e.MOLTBOT_GATEWAY_TOKEN
    ELSE e.CLAWDBOT_GATEWAY_TOKEN

\* The ?? chain of validateRequiredEnv
RequiredGatewayToken(e) ==
    IF e.OPENCLAW_GATEWAY_TOKEN # Undefined THEN e.OPENCLAW_GATEWAY_TOKEN
    ELSE IF e.MOLTBOT_GATEWAY_TOKEN # Undefined THEN e.MOLTBOT_GATEWAY_TOKEN
    ELSE e.CLAWDBOT_GATEWAY_TOKEN

\* The list of missing variable descriptions, in the order they are pushed.
validateRequiredEnv(e) ==
    LET isTestMode == IsTestMode(e)
        hasCloudflareGateway ==
            /\ IsSet(e.CLOUDFLARE_AI_GATEWAY_API_KEY)
            /\ IsSet(e.CF_AI_GATEWAY_ACCOUNT_ID)
            /\ IsSet(e.CF_AI_GATEWAY_GATEWAY_ID)
        hasLegacyGateway == IsSet(e.AI_GATEWAY_API_KEY) /\ IsSet(e.AI_GATEWAY_BASE_URL)
        hasAnthropicKey == IsSet(e.ANTHROPIC_API_KEY)
        hasOpenAIKey == IsSet(e.OPENAI_API_KEY)
        hasOpenAICodexOAuth == isTruthyFlag(e.OPENAI_CODEX_OAUTH)
    IN  (IF ~IsSet(RequiredGatewayToken(e)) THEN <<MissingGatewayToken>> ELSE <<>>)
        \o (IF ~isTestMode /\ ~IsSet(e.CF_ACCESS_TEAM_DOMAIN) THEN <<"CF_ACCESS_TEAM_DOMAIN">> ELSE <<>>)
        \o (IF ~isTestMode /\ ~IsSet(e.CF_ACCESS_AUD) THEN <<"CF_ACCESS_AUD">> ELSE <<>>)
        \o (IF /\ ~hasCloudflareGateway
               /\ ~hasLegacyGateway
               /\ ~hasAnthropicKey
               /\ ~hasOpenAIKey
               /\ ~hasOpenAICodexOAuth
              THEN <<MissingProvider>> ELSE <<>>)

\* Environments handed to validateRequiredEnv
TrueText == <<"t", "r", "u", "e">>
AccessEnvs ==
    [ CF_ACCESS_TEAM_DOMAIN : {Undefined, Some(<<>>), Some(OtherValue)},
      CF_ACCESS_AUD : {Undefined, Some(OtherValue)},
      DEV_MODE : {Undefined, Some(TrueText), Some(<<"T", "R", "U", "E">>)},
      E2E_TEST_MODE : {Undefined, Some(TrueText), Some(<<"1">>)} ]
CodexValues ==
    { Undefined, Some(<<>>), Some(<<"1">>), Some(TrueText), Some(<<"T", "R", "U", "E">>),
      Some(<<"T", "r", "u", "e">>), Some(<<" ", "t", "r", "u", "e", "\n">>), Some(<<"0">>),
      Some(<<"f", "a", "l", "s", "e">>), Some(<<"y", "e", "s">>), Some(<<"1", "1">>) }
ProviderEnvs ==
    [ CLOUDFLARE_AI_GATEWAY_API_KEY : {Undefined, Some(OtherValue)},
      CF_AI_GATEWAY_ACCOUNT_ID : {Undefined, Some(OtherValue)},
      CF_AI_GATEWAY_GATEWAY_ID : {Undefined, Some(OtherValue)} ]
      \cup [ AI_GATEWAY_API_KEY : {Undefined, Some(GatewayKey)},
             AI_GATEWAY_BASE_URL : {Undefined, Some(<<>>), Some(AnthropicUrl)} ]
      \cup [ ANTHROPIC_API_KEY : {Undefined, Some(<<>>), Some(AnthropicKey)},
             OPENAI_API_KEY : {Undefined, Some(DirectKey)} ]
      \cup [ OPENAI_CODEX_OAUTH : CodexValues ]

ValidateInputs ==
    { Merge(Merge(Merge(EmptyEnv, t), a), p) : t \in TokenEnvs, a \in AccessEnvs, p \in ProviderEnvs }

InitValidate ==
    /\ NoInvocation
    /\ fnArgs \in { Some([fn |-> "validateRequiredEnv", env |-> e]) : e \in ValidateInputs }
    /\ fnResult = Undefined

CallValidateRequiredEnv ==
    /\ Pending("validateRequiredEnv")
    /\ fnResult' = Some(validateRequiredEnv(Args.env))
    /\ UNCHANGED <<syncVars, fnArgs>>

NextValidate == CallValidateRequiredEnv

SpecValidate == InitValidate /\ [][NextValidate]_vars

\* ---------------------------------------------------------------------
\* applyCloudflareBrowserProfile (scripts/patch-browser-profile.cjs)
\* ---------------------------------------------------------------------
StartsWith(s, prefix) == Len(s) >= Len(prefix) /\ SubSeq(s, 1, Len(prefix)) = prefix

\* /^https?:\/\//i.test(s)
HasHttpScheme(s) ==
    \/ StartsWith(ToLowerCase(s), <<"h", "t", "t", "p", ":", "/", "/">>)
    \/ StartsWith(ToLowerCase(s), <<"h", "t", "t", "p", "s", ":", "/", "/">>)

\* The longest prefix of s without a character of stops
RECURSIVE TakeUntil(_, _)
TakeUntil(s, stops) ==
    IF s = <<>> \/ Head(s) \in stops THEN <<>> ELSE <<Head(s)>> \o TakeUntil(Tail(s), stops)

RECURSIVE DropLeadingSlashes(_)
DropLeadingSlashes(s) ==
    IF s # <<>> /\ Head(s) \in {"/", "\\"} THEN DropLeadingSlashes(Tail(s)) ELSE s

ForbiddenHostChars ==
    { " ", "\t", "\n", "\r", "#", "/", ":", "<", ">", "?", "@", "[", "\\", "]", "^", "|", "%" }

\* new URL(s).origin for an s that starts with http:// or https:// and has
\* neither user info nor an IPv6 literal; Undefined where the constructor
\* throws or the host name is empty.
UrlOrigin(s) ==
    LET lower == ToLowerCase(s)
        scheme == IF StartsWith(lower, <<"h", "t", "t", "p", "s", ":">>) THEN <<"h", "t", "t", "p", "s">> ELSE <<"h", "t", "t", "p">>
        rest == DropLeadingSlashes(SubSeq(lower, Len(scheme) + 2, Len(lower)))
        authority == TakeUntil(rest, {"/", "\\", "?", "#"})
        hostname == TakeUntil(authority, {":"})
        port == SubSeq(authority, Len(hostname) + 2, Len(authority))
        defaultPort == IF scheme = <<"h", "t", "t", "p", "s">> THEN <<"4", "4", "3">> ELSE <<"8", "0">>
    IN  IF \/ hostname = <<>>
           \/ \E i \in DOMAIN hostname : hostname[i] \in ForbiddenHostChars
           \/ \E i \in DOMAIN port : ~IsDigit(port[i])
          THEN Undefined
          ELSE Some(scheme \o <<":", "/", "/">> \o hostname
                      \o (IF port = <<>> \/ port = defaultPort THEN <<>> ELSE <<":">> \o port))

normalizeWorkerUrl(rawWorkerUrl) ==
    IF ~IsSet(rawWorkerUrl) THEN Undefined
    ELSE LET trimmed == StripTrailingSlashes(Trim(Get(rawWorkerUrl)))
         IN IF trimmed = <<>> THEN Undefined
            ELSE UrlOrigin(IF HasHttpScheme(trimmed) THEN trimmed ELSE <<"h", "t", "t", "p", "s", ":", "/", "/">> \o trimmed)

\* encodeURIComponent, for ASCII text
UnreservedChars ==
    { UpperCaseLetters[n] : n \in 1..26 } \cup { LowerCaseLetters[n] : n \in 1..26 }
      \cup { DecimalDigits[n] : n \in 1..10 } \cup { "-", "_", ".", "!", "~", "*", "'", "(", ")" }
PercentCode(c) ==
    CASE c = " " -> <<"%", "2", "0">>
      [] c = "+" -> <<"%", "2", "B">>
      [] c = "/" -> <<"%", "2", "F">>
      [] c = "&" -> <<"%", "2", "6">>
      [] c = "=" -> <<"%", "3", "D">>
      [] c = "?" -> <<"%", "3", "F">>
      [] c = "#" -> <<"%", "2", "3">>
      [] c = "%" -> <<"%", "2", "5">>
RECURSIVE encodeURIComponent(_)
encodeURIComponent(s) ==
    IF s = <<>> THEN <<>>
    ELSE (IF Head(s) \in UnreservedChars THEN <<Head(s)>> ELSE PercentCode(Head(s)))
           \o encodeURIComponent(Tail(s))

buildCloudflareCdpUrl(workerUrl, secret) ==
    IF ~IsSet(workerUrl) \/ ~IsSet(secret) THEN Undefined
    ELSE LET normalizedOrigin == normalizeWorkerUrl(workerUrl)
         IN IF ~IsSet(normalizedOrigin) THEN Undefined
            ELSE Some(Get(normalizedOrigin) \o <<"/", "c", "d", "p", "?", "s", "e", "c", "r", "e", "t", "=">> \o encodeURIComponent(Get(secret)))

\* A config object is a record of its possible keys; a key it does not
\* have is Undefined.  {} has every key Undefined.
EmptyProfile == [cdpUrl |-> Undefined, label |-> Undefined]
EmptyProfiles == [existing |-> Undefined, cloudflare |-> Undefined]
EmptyBrowser == [profiles |-> Undefined, headless |-> Undefined]

\* x || {}
OrObject(o, empty) == IF o = Undefined THEN empty ELSE Get(o)

\* Variant of SpreadWithCdpUrl: the profile is replaced, not extended.
SpreadWithCdpUrl_Replaced(profile, cdpUrl) == [EmptyProfile EXCEPT !.cdpUrl = Some(cdpUrl)]

\* { ...profile, cdpUrl }
SpreadWithCdpUrl(profile, cdpUrl) == [profile EXCEPT !.cdpUrl = Some(cdpUrl)]

MissingEnvWarning == "Browser profile not configured: set both WORKER_URL and CDP_SECRET to enable browser automation."
InvalidUrlWarning == "Browser profile not configured: WORKER_URL is invalid."
ConfiguredLog == "Browser profile configured: browser.profiles.cloudflare.cdpUrl"

\* The call's effects: the config object afterwards, the messages handed
\* to logger.warn and logger.log, and the value returned.
applyCloudflareBrowserProfile(config, e) ==
    LET workerUrl == e.WORKER_URL
        secret == e.CDP_SECRET
        cdpUrl == buildCloudflareCdpUrl(workerUrl, secret)
    IN  IF ~IsSet(workerUrl) \/ ~IsSet(secret)
          THEN [ config |-> config, warned |-> <<MissingEnvWarning>>, logged |-> <<>>,
                 returned |-> [configured |-> FALSE, reason |-> Some("missing_env"), cdpUrl |-> Undefined] ]
        ELSE IF ~IsSet(cdpUrl)
          THEN [ config |-> config, warned |-> <<InvalidUrlWarning>>, logged |-> <<>>,
                 returned |-> [configured |-> FALSE, reason |-> Some("invalid_worker_url"), cdpUrl |-> Undefined] ]
        ELSE LET browser == OrObject(config.browser, EmptyBrowser)
                 profiles == OrObject(browser.profiles, EmptyProfiles)
                 cloudflare == SpreadWithCdpUrl(OrObject(profiles.cloudflare, EmptyProfile), Get(cdpUrl))
             IN [ config |->
                      [config EXCEPT !.browser =
                          Some([browser EXCEPT !.profiles =
                                   Some([profiles EXCEPT !.cloudflare = Some(cloudflare)])])],
                  warned |-> <<>>, logged |-> <<ConfiguredLog>>,
                  returned |-> [configured |-> TRUE, reason |-> Undefined, cdpUrl |-> cdpUrl] ]

\* Config objects and environments handed to applyCloudflareBrowserProfile
ExistingCdpUrl == <<"w", "s", "s", ":", "/", "/", "e", "x", "i", "s", "t", "i", "n", "g", ".", "e", "x", "a", "m", "p", "l", "e">>
KeptValue == <<"k", "e", "e", "p", "-", "m", "e">>
ProfileValues ==
    [ cdpUrl : {Undefined, Some(ExistingCdpUrl)}, label : {Undefined, Some(KeptValue)} ]
ProfilesValues ==
    [ existing : {Undefined, Some([cdpUrl |-> Some(ExistingCdpUrl), label |-> Undefined])},
      cloudflare : {Undefined} \cup { Some(pr) : pr \in ProfileValues } ]
BrowserValues ==
    [ profiles : {Undefined} \cup { Some(ps) : ps \in ProfilesValues },
      headless : {Undefined, Some(KeptValue)} ]
ConfigValues ==
    [ browser : {Undefined} \cup { Some(b) : b \in BrowserValues },
      gateway : {Undefined, Some(KeptValue)} ]

WorkerHost == <<"h", "t", "t", "p", "s", ":", "/", "/", "w", "o", "r", "k", "e", "r", ".", "e", "x", "a", "m", "p", "l", "e">>
WorkerUrls ==
    { Undefined, Some(<<>>), Some(<<" ", " ">>),
      Some(WorkerHost), Some(WorkerHost \o <<"/">>),
      Some(<<"w", "o", "r", "k", "e", "r", ".", "e", "x", "a", "m", "p", "l", "e">>),
      Some(<<" ", "H", "T", "T", "P", ":", "/", "/", "W", "o", "r", "k", "e", "r", ".", "E", "x", "a", "m", "p", "l", "e", ":", "8", "0", "8", "0", "/", "p", "a", "t", "h", "/", "/", " ">>),
      Some(<<":", "/", "/", "b", "a", "d", "-", "u", "r", "l">>),
      Some(<<"b", "a", "d", " ", "h", "o", "s", "t">>) }
CdpSecrets == { Undefined, Some(<<>>), Some(<<"t", "o", "p", "-", "s", "e", "c", "r", "e", "t">>), Some(<<"a", "+", "b", " ", "c">>) }

InitBrowserProfile ==
    /\ NoInvocation
    /\ fnArgs \in { Some([fn |-> "applyCloudflareBrowserProfile", config |-> c,
                          env |-> [WORKER_URL |-> w, CDP_SECRET |-> x]]) :
                      c \in ConfigValues, w \in WorkerUrls, x \in CdpSecrets }
    /\ fnResult = Undefined

CallApplyCloudflareBrowserProfile ==
    /\ Pending("applyCloudflareBrowserProfile")
    /\ fnResult' = Some(applyCloudflareBrowserProfile(Args.config, Args.env))
    /\ UNCHANGED <<syncVars, fnArgs>>

NextBrowserProfile == CallApplyCloudflareBrowserProfile

SpecBrowserProfile == InitBrowserProfile /\ [][NextBrowserProfile]_vars

\* ---------------------------------------------------------------------
\* validateRequiredEnv and buildEnvVars on one environment
\* ---------------------------------------------------------------------
EnvPairInputs == { Merge(Merge(EmptyEnv, t), a) : t \in TokenEnvs, a \in AccessEnvs }

InitEnvPair ==
    /\ NoInvocation
    /\ fnArgs \in { Some([fn |-> "validateRequiredEnv, buildEnvVars", env |-> e]) : e \in EnvPairInputs }
    /\ fnResult = Undefined

\* What the two functions have returned so far.
EnvPairResult == IF fnResult = Undefined THEN [missing |-> Undefined, envVars |-> Undefined] ELSE Ret

CallValidateOnEnv ==
    /\ fnArgs # Undefined
    /\ Args.fn = "validateRequiredEnv, buildEnvVars"
    /\ EnvPairResult.missing = Undefined
    /\ fnResult' = Some([EnvPairResult EXCEPT !.missing = Some(validateRequiredEnv(Args.env))])
    /\ UNCHANGED <<syncVars, fnArgs>>

CallBuildOnEnv ==
    /\ fnArgs # Undefined
    /\ Args.fn = "validateRequiredEnv, buildEnvVars"
    /\ EnvPairResult.envVars = Undefined
    /\ fnResult' = Some([EnvPairResult EXCEPT !.envVars = Some(buildEnvVars(Args.env))])
    /\ UNCHANGED <<syncVars, fnArgs>>

NextEnvPair ==
    \/ CallValidateOnEnv
    \/ CallBuildOnEnv

SpecEnvPair == InitEnvPair /\ [][NextEnvPair]_vars

\* ---------------------------------------------------------------------
\* syncCmd, as the shell of the container runs it
\* ---------------------------------------------------------------------
\* A path as the sequence of its components.
RECURSIVE Components(_)
Components(s) ==
    IF s = <<>> THEN <<>>
    ELSE IF Head(s) = "/" THEN Components(Tail(s))
    ELSE LET first == TakeUntil(s, {"/"})
         IN <<first>> \o Components(SubSeq(s, Len(first) + 1, Len(s)))

IsUnder(path, dir) == Len(path) > Len(dir) /\ SubSeq(path, 1, Len(dir)) = dir

\* [ -d dir ]
IsDirectory(files, dir) == \E f \in files : IsUnder(f, Components(dir))

\* --exclude='<pattern>' against one component of a path
ExcludeMatches(pattern, component) ==
    CASE pattern = "*.lock" -> EndsWith(component, <<".", "l", "o", "c", "k">>)
      [] pattern = "*.log" -> EndsWith(component, <<".", "l", "o", "g">>)
      [] pattern = "*.tmp" -> EndsWith(component, <<".", "t", "m", "p">>)
      [] pattern = "skills" -> component = <<"s", "k", "i", "l", "l", "s">>
      [] OTHER -> FALSE

Excluded(rel, excludes) ==
    \E pattern \in excludes : \E i \in DOMAIN rel : ExcludeMatches(pattern, rel[i])

\* rsync -r --no-times --delete [--exclude=...] src/ dest/: what dest holds
\* afterwards, as paths relative to dest.  Excluded entries are neither
\* copied nor deleted.
Mirror(files, src, excludes, before) ==
    LET from == Components(src)
        found == { SubSeq(f, Len(from) + 1, Len(f)) : f \in { g \in files : IsUnder(g, from) } }
    IN { r \in found : ~Excluded(r, excludes) } \cup { r \in before : Excluded(r, excludes) }

\* Variant of ChainContinues: the stages are joined by ";".
ChainContinues_Always(status) == TRUE

\* a && b: b runs only when a returned 0
ChainContinues(status) == status = 0

\* The shell before the first stage: nothing ran, the destinations hold
\* what they held.
ShellStart(bucket) ==
    [stage |-> 1, trace |-> <<>>, bucket |-> bucket, marker |-> FALSE, exit |-> Undefined]

\* One stage of cmd returned status; the chain goes on or the shell exits.
Chain(cmd, sh, outcome, status) ==
    IF ChainContinues(status) /\ sh.stage < Len(cmd)
      THEN [sh EXCEPT !.stage = @ + 1, !.trace = Append(@, outcome)]
      ELSE [sh EXCEPT !.stage = Len(cmd) + 1, !.trace = Append(@, outcome), !.exit = Some(status)]

\* What a stage that returns 0 leaves behind.
StageEffect(st, files, sh) ==
    IF st.tool = "date -Iseconds >"
      THEN [sh EXCEPT !.marker = TRUE]
      ELSE [sh EXCEPT !.bucket[st.dest] = Mirror(files, st.src, st.excludes, @)]

\* Files of the container and of the bucket
File(dir, name) == Components(dir) \o <<name>>
ConfigFileNames ==
    { <<"c", "o", "n", "f", "i", "g", ".", "j", "s", "o", "n">>,
      <<"g", "a", "t", "e", "w", "a", "y", ".", "l", "o", "c", "k">>,
      <<"a", "g", "e", "n", "t", ".", "l", "o", "g">>,
      <<"c", "a", "c", "h", "e", ".", "t", "m", "p">> }
WorkspaceFileNames ==
    { <<"n", "o", "t", "e", "s", ".", "m", "d">>, <<"b", "u", "i", "l", "d", ".", "l", "o", "g">> }
SkillsFileNames ==
    { <<"t", "o", "o", "l", ".", "m", "d">>, <<"f", "e", "t", "c", "h", ".", "t", "m", "p">> }
StaleEntry == <<<<"o", "l", "d", ".", "m", "d">>>>

ContainerFiles(dir, has) ==
    { File(dir, n) : n \in ConfigFileNames }
      \cup (IF has.workspace THEN { File(WORKSPACE_DIR, n) : n \in WorkspaceFileNames } ELSE {})
      \cup (IF has.skills THEN { File(SKILLS_DIR, n) : n \in SkillsFileNames } ELSE {})

StageNumbers == DOMAIN syncCmd(OPENCLAW_DIR)

\* Exit statuses of a failing rsync
RsyncFailures == { 1, 23 }

PipelineInputs ==
    { [fn |-> "syncCmd", cmd |-> syncCmd(dir), has |-> has, files |-> ContainerFiles(dir, has),
       bucket |-> [d \in { syncCmd(dir)[i].dest : i \in 1..4 } |-> old], fails |-> fails] :
        dir \in {OPENCLAW_DIR, CLAWDBOT_DIR},
        has \in [workspace : BOOLEAN, skills : BOOLEAN],
        old \in {{}, {StaleEntry}},
        fails \in {Undefined} \cup
                  { Some([stage |-> i, status |-> c]) : i \in StageNumbers, c \in RsyncFailures } }

InitPipeline ==
    /\ NoInvocation
    /\ fnArgs \in { Some(a) : a \in PipelineInputs }
    /\ fnResult = Undefined

\* The process of syncCmd starts
ShellStarts ==
    /\ Pending("syncCmd")
    /\ fnResult' = Some(ShellStart(Args.bucket))
    /\ UNCHANGED <<syncVars, fnArgs>>

Running == Returned("syncCmd") /\ Ret.exit = Undefined
StageIsDue(st) == IF st.ifDir = Undefined THEN TRUE ELSE IsDirectory(Args.files, Get(st.ifDir))

\* The command of the next stage runs and returns its status
StageRuns ==
    /\ Running
    /\ LET st == Args.cmd[Ret.stage]
       IN /\ StageIsDue(st)
          /\ fnResult' =
               IF Args.fails # Undefined /\ Get(Args.fails).stage = Ret.stage
                 THEN Some(Chain(Args.cmd, Ret, "failed", Get(Args.fails).status))
                 ELSE Some(Chain(Args.cmd, StageEffect(st, Args.files, Ret), "ok", 0))
    /\ UNCHANGED <<syncVars, fnArgs>>

\* if [ -d dir ]; then ...; fi with no such directory: the if returns 0
StageSkipped ==
    /\ Running
    /\ ~StageIsDue(Args.cmd[Ret.stage])
    /\ fnResult' = Some(Chain(Args.cmd, Ret, "skipped", 0))
    /\ UNCHANGED <<syncVars, fnArgs>>

NextPipeline ==
    \/ ShellStarts
    \/ StageRuns
    \/ StageSkipped

SpecPipeline == InitPipeline /\ [][NextPipeline]_vars

\* =====================================================================
\* Properties
\* =====================================================================
HasResult == result # Undefined
Res == Get(result)
Failed(msg) == HasResult /\ ~Res.success /\ Res.error = Some(msg)
StartedNames == { started[i].name : i \in DOMAIN started }
SyncStarted == "sync" \in StartedNames

\* The stage a remote command belongs to, and the stage an error reports.
StageOf(name) ==
    CASE name \in {"stat", "fsContext"} -> 3
      [] name = "command -v rsync" -> 4
      [] name \in {"sync", "cat"} -> 5
ErrorStage(msg) ==
    CASE msg = "R2 storage is not configured" -> 1
      [] msg = "Failed to mount R2 storage" -> 2
      [] msg \in {"Failed to verify source files", "Sync aborted: config check did not complete",
                  "Sync aborted: no config file found"} -> 3
      [] msg \in {"Sync aborted: rsync check did not complete", "Sync aborted: rsync is not available",
                  "Sync aborted: rsync check failed"} -> 4
      [] msg \in {"Sync failed", "Sync error"} -> 5

C1_OrderedState ==
    /\ \A i, j \in DOMAIN started : i < j => StageOf(started[i].name) <= StageOf(started[j].name)
    /\ \A i, j \in DOMAIN started :
          (started[i].name = "sync" /\ started[j].name = "cat") => i < j
    /\ started # <<>> => (mountCalls = 1 /\ started[1].name = "stat")
    /\ mountCalls > 0 => ~NotConfigured(env)
    /\ "sync" \in StartedNames => "command -v rsync" \in StartedNames
    /\ "cat" \in StartedNames => "sync" \in StartedNames
    /\ (HasResult /\ ~Res.success) =>
          /\ \A i \in DOMAIN started : StageOf(started[i].name) <= ErrorStage(Get(Res.error))
          /\ mountCalls = (IF ErrorStage(Get(Res.error)) >= 2 THEN 1 ELSE 0)

C1_NothingAfterReturn ==
    (HasResult \/ thrown # Undefined) => (started' = started /\ mountCalls' = mountCalls)

\* C1: the stages run in the order precondition, mount, config discovery,
\* rsync availability, pipeline and verification; a failure result of a stage
\* comes with no remote command of a later stage, and nothing is started
\* after the invocation has returned.
C1_StageOrder == [](C1_OrderedState) /\ [][C1_NothingAfterReturn]_vars

\* A failure of the fourth stage after the commands of the third.
C1_Witness ==
    /\ Failed("Sync aborted: rsync is not available")
    /\ StartedNames = {"stat", "command -v rsync"}
    /\ Len(started) = 3

\* C2: the rsync pipeline is started only after a config probe of this
\* invocation completed with exit code 0 and a stdout containing the probed
\* path, and it copies from the directory of that probe.
C2_PipelineNeedsConfirmedConfig ==
    SyncStarted =>
        /\ confirmed # Undefined
        /\ LET c == Get(confirmed) IN
             /\ c.exists
             /\ ~InProgress(c.status)
             /\ c.exitCode = Some(0)
             /\ \E i \in 1..(Len(c.stdout) - Len(c.path) + 1) :
                   SubSeq(c.stdout, i, i + Len(c.path) - 1) = c.path
             /\ \E i \in DOMAIN started : started[i] = StatCommand(c.path)
             /\ c.path \in {OPENCLAW_CONFIG_PATH, CLAWDBOT_CONFIG_PATH}

\* The pipeline was started after the primary probe did not report the
\* config and the legacy probe confirmed it.
C2_Witness ==
    /\ SyncStarted
    /\ Len(started) >= 4
    /\ confirmed # Undefined
    /\ Get(confirmed).path = CLAWDBOT_CONFIG_PATH

\* The date shape, written out on the first ten characters.
DateShape(s) ==
    /\ Len(s) >= 10
    /\ {s[1], s[2], s[3], s[4], s[6], s[7], s[9], s[10]}
          \subseteq {"0", "1", "2", "3", "4", "5", "6", "7", "8", "9"}
    /\ <<s[5], s[8]>> = <<"-", "-">>

RECURSIVE Strip(_)
Strip(s) ==
    IF s = <<>> THEN s
    ELSE IF Head(s) \in {" ", "\n", "\t", "\r"} THEN Strip(Tail(s))
    ELSE IF s[Len(s)] \in {" ", "\n", "\t", "\r"} THEN Strip(SubSeq(s, 1, Len(s) - 1))
    ELSE s

MarkerStdout == Get(timestampLogs).stdout
MarkerAccepted == MarkerStdout # Undefined /\ DateShape(Strip(Get(MarkerStdout)))

\* C3: the result is a success exactly when the trimmed stdout of the marker
\* read has the date shape, and lastSync is that trimmed content; a marker
\* that does not have it gives no success whatever the pipeline process
\* reports.
C3_SuccessIffMarkerValid ==
    /\ (HasResult /\ Res.success) =>
          /\ timestampLogs # Undefined
          /\ MarkerAccepted
          /\ Res.lastSync = Some(Strip(Get(MarkerStdout)))
          /\ Res.error = Undefined
    /\ (timestampLogs # Undefined /\ MarkerAccepted) =>
          (HasResult /\ Res.success /\ pc = "done")
    /\ (timestampLogs # Undefined /\ ~MarkerAccepted) =>
          /\ ~(HasResult /\ Res.success)
          /\ pc \in {"syncLogs", "done"}
    /\ (timestampLogs # Undefined /\ MarkerStdout = Some(MarkerOffset)) =>
          (HasResult /\ Res = Success(MarkerOffset))
    /\ (timestampLogs # Undefined /\ MarkerStdout \in {Some(MarkerNotADate), Some(<<>>)}) =>
          ~(HasResult /\ Res.success)

\* A success from a marker padded with white space, while the pipeline
\* process itself is still running.
C3_Witness ==
    /\ HasResult
    /\ Res = Success(MarkerZulu)
    /\ MarkerStdout = Some(MarkerPadded)
    /\ InProgress(procs["proc"].status)

\* C4: syncToR2 resolves to a SyncResult and never rejects.
C4_NeverThrows ==
    /\ thrown = Undefined
    /\ pc = "done" => HasResult

\* C5: with one of the three R2 settings missing, the invocation returns
\* 'R2 storage is not configured' at once: mountR2Storage is not called and
\* no process is started.
C5_NotConfiguredIsImmediate ==
    ( \E k \in {"R2_ACCESS_KEY_ID", "R2_SECRET_ACCESS_KEY", "CF_ACCOUNT_ID"} :
          env[k] \in {Undefined, Some("")} ) =>
        /\ mountCalls = 0
        /\ started = <<>>
        /\ pc \in {"entry", "done"}
        /\ pc = "done" => result = Some(Failure("R2 storage is not configured", Undefined))
        /\ thrown = Undefined

\* Returned with only the account id missing.
C5_Witness ==
    /\ pc = "done"
    /\ env.CF_ACCOUNT_ID = Undefined
    /\ env.R2_ACCESS_KEY_ID = Some("set")
    /\ env.R2_SECRET_ACCESS_KEY = Some("set")
    /\ Failed("R2 storage is not configured")

IncompleteMsg == "Sync aborted: config check did not complete"
NoConfigMsg == "Sync aborted: no config file found"

\* C6 as stated: a primary probe with didComplete = false makes discovery
\* fail with 'config check did not complete' whatever the legacy probe returns.
C6_IncompleteAlwaysFails ==
    [][ ( /\ pc = "checkLegacy"
          /\ pc' \in {"rsyncCheck", "fsContext"}
          /\ ~checks[1].didComplete )
        => (pc' = "fsContext" /\ pendingError' = IncompleteMsg) ]_vars

\* C6, amended: when both probes returned, neither reports the config and
\* at least one has didComplete = false, discovery fails with 'config check
\* did not complete', whatever the other probe and the filesystem probe return.
C6_IncompleteFailsWhenNoneExists ==
    ( /\ Len(checks) = 2
      /\ \E i \in {1, 2} : InProgress(checks[i].status) \/ checks[i].exitCode = Undefined ) =>
        /\ pc \in {"fsContext", "done"}
        /\ ~SyncStarted
        /\ pendingError = IncompleteMsg
        /\ pc = "done" => Failed(IncompleteMsg)

\* The primary probe completed and reports absence, the legacy probe timed out.
C6_Witness ==
    /\ pc = "done"
    /\ Failed(IncompleteMsg)
    /\ Len(checks) = 2
    /\ checks[1].didComplete
    /\ checks[2].status = "running"

\* The config source directory of the started pipeline.
SyncSources == { started[i].arg[1].src : i \in { j \in DOMAIN started : started[j].name = "sync" } }

\* C7: the primary path is probed first; when its probe reports the config
\* the legacy path is not probed and the pipeline copies from /root/.openclaw;
\* when only the legacy probe reports it, discovery goes on to the rsync
\* check and the pipeline copies from /root/.clawdbot.
C7_PriorityOrder ==
    /\ started # <<>> => started[1] = StatCommand(OPENCLAW_CONFIG_PATH)
    /\ \A i \in DOMAIN started : started[i] = StatCommand(CLAWDBOT_CONFIG_PATH) => i = 2
    /\ (confirmed # Undefined /\ Get(confirmed).path = OPENCLAW_CONFIG_PATH) =>
          /\ \A i \in DOMAIN started : started[i] # StatCommand(CLAWDBOT_CONFIG_PATH)
          /\ SyncSources \subseteq {OPENCLAW_DIR}
          /\ started[2].name = "command -v rsync"
    /\ (confirmed # Undefined /\ Get(confirmed).path = CLAWDBOT_CONFIG_PATH) =>
          /\ SyncSources \subseteq {CLAWDBOT_DIR}
          /\ started[3].name = "command -v rsync"
          /\ ~(HasResult /\ ~Res.success /\ ErrorStage(Get(Res.error)) = 3)
    /\ SyncStarted => (confirmed # Undefined /\ SyncSources # {})

\* The pipeline runs from the legacy directory.
C7_Witness ==
    /\ SyncSources = {CLAWDBOT_DIR}
    /\ confirmed # Undefined
    /\ Get(confirmed).path = CLAWDBOT_CONFIG_PATH

\* C8: when both probes completed and neither reports the config, the
\* result is 'no config file found' and its details list both probed paths,
\* with one check entry per path.
C8_NoConfigListsBothPaths ==
    ( /\ pc = "done"
      /\ Len(checks) = 2
      /\ \A i \in {1, 2} : ~InProgress(checks[i].status) /\ checks[i].exitCode # Undefined ) =>
        /\ Failed(NoConfigMsg)
        /\ Res.details # Undefined
        /\ LET d == Get(Res.details) IN
             /\ d.triedPaths = <<OPENCLAW_CONFIG_PATH, CLAWDBOT_CONFIG_PATH>>
             /\ Len(d.checks) = 2
             /\ d.checks[1].path = OPENCLAW_CONFIG_PATH
             /\ d.checks[2].path = CLAWDBOT_CONFIG_PATH
             /\ \A i \in {1, 2} : ~d.checks[i].exists

\* Both probes completed with exit code 1.
C8_Witness ==
    /\ pc = "done"
    /\ Failed(NoConfigMsg)
    /\ Len(checks) = 2
    /\ \A i \in {1, 2} : checks[i].status = "completed" /\ checks[i].exitCode = Some(1)

NonBlank(s) == \E i \in DOMAIN s : s[i] \notin {" ", "\n", "\t", "\r"}

\* C9: the pipeline is started only after an rsync check that completed
\* with exit code 0 and a stdout that is not blank; a check that did not
\* complete gives 'rsync check did not complete', a completed one with
\* another exit code or a blank stdout gives 'rsync is not available'.
C9_RsyncAvailability ==
    /\ SyncStarted =>
          /\ rsyncCheck # Undefined
          /\ ~InProgress(Get(rsyncCheck).status)
          /\ Get(rsyncCheck).exitCode = Some(0)
          /\ NonBlank(Get(rsyncCheck).stdout)
    /\ rsyncCheck # Undefined =>
          LET r == Get(rsyncCheck)
              complete == ~InProgress(r.status) /\ r.exitCode # Undefined
          IN /\ ~complete => (Failed("Sync aborted: rsync check did not complete") /\ ~SyncStarted)
             /\ (complete /\ (r.exitCode # Some(0) \/ ~NonBlank(r.stdout))) =>
                   (Failed("Sync aborted: rsync is not available") /\ ~SyncStarted)
             /\ (complete /\ r.exitCode = Some(0) /\ NonBlank(r.stdout)) => SyncStarted

\* Exit code 0 with a stdout of white space only.
C9_Witness ==
    /\ rsyncCheck # Undefined
    /\ Get(rsyncCheck).exitCode = Some(0)
    /\ Get(rsyncCheck).status = "completed"
    /\ Get(rsyncCheck).stdout = Blank
    /\ Failed("Sync aborted: rsync is not available")

\* The process waited on became terminal only at or after the deadline, or
\* is still in progress.
NotTerminalBeforeDeadline(p) == InProgress(p.status) \/ p.late

\* C10 as stated: a command that did not reach a terminal status before
\* the deadline gives a CommandResult with didComplete = false.
C10_DeadlineDecidesDidComplete ==
    [][ /\ (pc = "checkNew" /\ pc' = "checkLegacy" /\ NotTerminalBeforeDeadline(procs["proc"]))
            => ~checks'[1].didComplete
        /\ (pc = "checkNew" /\ pc' = "rsyncCheck") => ~NotTerminalBeforeDeadline(procs["proc"])
        /\ (pc = "checkLegacy" /\ pc' = "fsContext" /\ NotTerminalBeforeDeadline(procs["proc"]))
            => ~checks'[2].didComplete
        /\ (pc = "checkLegacy" /\ pc' = "rsyncCheck") => ~NotTerminalBeforeDeadline(procs["proc"])
        /\ (pc = "rsyncCheck" /\ rsyncCheck' # Undefined /\ NotTerminalBeforeDeadline(procs["proc"]))
            => ~Get(rsyncCheck').didComplete ]_vars

\* Every CommandResult the invocation holds.
HeldResults ==
    { checks[i] : i \in DOMAIN checks } \cup confirmed \cup rsyncCheck

\* C10, amended: a command whose status is still 'running' or 'starting'
\* when its CommandResult is built has didComplete = false and its exit code
\* is disregarded (the config does not count as existing, the rsync check is
\* reported as not completed) even if an exit code is present; didComplete
\* is true only if the status observed then is terminal and the exit code
\* is a number.
C10_FinalStatusDecidesDidComplete ==
    /\ \A r \in HeldResults :
          /\ InProgress(r.status) => ~r.didComplete
          /\ r.didComplete => (r.status \in {"completed", "error"} /\ r.exitCode \in {Some(0), Some(1)})
    /\ \A i \in DOMAIN checks : InProgress(checks[i].status) => ~checks[i].exists
    /\ \A c \in confirmed : ~InProgress(c.status)
    /\ \A r \in rsyncCheck :
          InProgress(r.status) => (Failed("Sync aborted: rsync check did not complete") /\ ~SyncStarted)

\* A probe still running at the deadline with exit code 0 present and the
\* path in its stdout: it does not count.
C10_Witness ==
    /\ checks # <<>>
    /\ checks[1].status = "running"
    /\ checks[1].exitCode = Some(0)
    /\ Includes(checks[1].stdout, OPENCLAW_CONFIG_PATH)
    /\ ~checks[1].didComplete
    /\ ~checks[1].exists

\* The ConfigCheckResults the invocation holds.
HeldChecks == { checks[i] : i \in DOMAIN checks } \cup confirmed

\* stdout holds the path as a contiguous run of characters.
HasPathAt(c) ==
    \E i \in 1..(Len(c.stdout) - Len(c.path) + 1) :
        \A k \in 1..Len(c.path) : c.stdout[i + k - 1] = c.path[k]

\* C11: in every ConfigCheckResult, exists is true only if didComplete is
\* true, the exit code is 0 and stdout contains the probed path; exit code 0
\* without the other two never gives exists = true.
C11_ExistsNeedsAllThree ==
    \A c \in HeldChecks :
        /\ c.exists => (c.didComplete /\ c.exitCode = Some(0) /\ HasPathAt(c))
        /\ (c.exitCode = Some(0) /\ ~(c.didComplete /\ HasPathAt(c))) => ~c.exists

\* A probe that completed with exit code 0 and a stdout without the path.
C11_Witness ==
    /\ checks # <<>>
    /\ checks[1].status = "completed"
    /\ checks[1].exitCode = Some(0)
    /\ checks[1].didComplete
    /\ ~HasPathAt(checks[1])
    /\ ~checks[1].exists

\* The command whose remote call raised: the last one handed to startProcess.
RaisedIn == started[Len(started)].name
RaisedText == LET e == Get(raised).err IN IF e.isError THEN e.message ELSE "Unknown error"
ExceptionCategories ==
    { "Failed to verify source files", "Sync aborted: rsync check failed", "Sync error" }

\* C12: an exception raised by a remote call of config probing gives
\* 'Failed to verify source files', one raised in the rsync availability
\* check gives 'Sync aborted: rsync check failed', one raised in pipeline
\* start, wait, marker read or log fetch gives 'Sync error', each with the
\* exception message as details; and a result of one of these three
\* categories comes from an exception of its own stage only.
C12_ExceptionKeepsItsStage ==
    /\ (raised # Undefined /\ started # <<>>) =>
          /\ RaisedIn = "stat" =>
                result = Some(Failure("Failed to verify source files", Message(RaisedText)))
          /\ RaisedIn = "command -v rsync" =>
                result = Some(Failure("Sync aborted: rsync check failed", Message(RaisedText)))
          /\ RaisedIn \in {"sync", "cat"} =>
                result = Some(Failure("Sync error", Message(RaisedText)))
    /\ \A m \in ExceptionCategories :
          Failed(m) =>
             /\ raised # Undefined
             /\ started # <<>>
             /\ RaisedIn \in ( CASE m = "Failed to verify source files" -> {"stat"}
                                 [] m = "Sync aborted: rsync check failed" -> {"command -v rsync"}
                                 [] m = "Sync error" -> {"sync", "cat"} )

\* The wait on the pipeline raised an Error: 'Sync error' with its message.
C12_Witness ==
    /\ raised # Undefined
    /\ Get(raised).await = "waitForProcess"
    /\ Get(raised).err.isError
    /\ started # <<>>
    /\ RaisedIn = "sync"
    /\ result = Some(Failure("Sync error", Message("transport failure")))

CategoryMessages ==
    { "R2 storage is not configured", "Failed to mount R2 storage",
      "Failed to verify source files", "Sync aborted: config check did not complete",
      "Sync aborted: no config file found", "Sync aborted: rsync check did not complete",
      "Sync aborted: rsync is not available", "Sync aborted: rsync check failed",
      "Sync failed", "Sync error" }

\* C13: every SyncResult returned is well-formed: a success has a
\* non-empty lastSync that starts with a date and neither error nor
\* details; a failure has an error from the fixed set of category messages
\* and no lastSync.
C13_ResultWellFormed ==
    \A r \in result :
        /\ r.success \in BOOLEAN
        /\ r.success =>
              /\ r.lastSync # Undefined
              /\ Get(r.lastSync) # <<>>
              /\ DateShape(Get(r.lastSync))
              /\ r.error = Undefined
              /\ r.details = Undefined
        /\ ~r.success =>
              /\ r.error # Undefined
              /\ Get(r.error) \in CategoryMessages
              /\ Get(r.error) # ""
              /\ r.lastSync = Undefined

\* A success whose lastSync is the marker with a zone offset.
C13_Witness ==
    /\ pc = "done"
    /\ HasResult
    /\ Res.success
    /\ Res.lastSync = Some(MarkerOffset)

FsProbeStarted == \E i \in DOMAIN started : started[i] = FsCommand
FsProbeRaised == raised # Undefined /\ started # <<>> /\ RaisedIn = "fsContext"

\* C15: the filesystem probe is started only after both config probes
\* returned without finding a config; whether it then completes, times out
\* or raises, the result is the config failure chosen before it ran ('no
\* config file found' or 'config check did not complete'), and an exception
\* of the probe appears only as fsContextError inside the details.
C15_ProbeKeepsPrimaryFailure ==
    FsProbeStarted =>
        /\ Len(started) = 3
        /\ started[1] = StatCommand(OPENCLAW_CONFIG_PATH)
        /\ started[2] = StatCommand(CLAWDBOT_CONFIG_PATH)
        /\ Len(checks) = 2
        /\ \A i \in {1, 2} : ~checks[i].exists
        /\ confirmed = Undefined
        /\ pendingError \in {NoConfigMsg, IncompleteMsg}
        /\ pendingError = (IF \A i \in {1, 2} : checks[i].didComplete THEN NoConfigMsg ELSE IncompleteMsg)
        /\ thrown = Undefined
        /\ pc = "done" =>
              /\ Failed(pendingError)
              /\ Res.details # Undefined
              /\ LET d == Get(Res.details) IN
                   /\ d.kind = "configCheck"
                   /\ Len(d.checks) = 2
                   /\ IF FsProbeRaised
                        THEN d.fsContextError = Some(RaisedText) /\ d.fsContext = Undefined
                        ELSE d.fsContextError = Undefined /\ d.fsContext # Undefined

\* The probe raised after both config probes completed without a config.
C15_Witness ==
    /\ pc = "done"
    /\ FsProbeRaised
    /\ Failed(NoConfigMsg)
    /\ Get(Res.details).fsContextError = Some("transport failure")

\* The probe timed out: its own result is incomplete, the category stays.
C15_WitnessTimedOut ==
    /\ pc = "done"
    /\ FsProbeStarted
    /\ ~FsProbeRaised
    /\ Failed(IncompleteMsg)
    /\ ~Get(Get(Res.details).fsContext).didComplete

TruncationMarker == <<"\n", ".", ".", ".", "[", "t", "r", "u", "n", "c", "a", "t", "e", "d", "]">>

\* C16: truncateOutput returns a string of at most 2000 characters as it
\* is, and a longer one as its first 2000 characters followed by the
\* truncation marker.
C16_TruncateAtLimit ==
    Returned("truncateOutput") =>
        LET v == Args.value
            out == Ret
        IN /\ Len(v) <= 2000 => out = v
           /\ Len(v) > 2000 =>
                 /\ Len(out) = 2000 + Len(TruncationMarker)
                 /\ \A i \in 1..2000 : out[i] = v[i]
                 /\ \A i \in 1..Len(TruncationMarker) : out[2000 + i] = TruncationMarker[i]

\* A string of 2500 numbered characters was cut to 2000 plus the marker.
C16_Witness ==
    /\ Returned("truncateOutput")
    /\ Len(Args.value) = 2500
    /\ Args.value[2500] = "0"
    /\ Len(Ret) = 2015
    /\ Ret[2000] = "0"
    /\ Ret[2001] = "\n"

\* A string of exactly 2000 characters was returned as it is.
C16_WitnessAtLimit ==
    /\ Returned("truncateOutput")
    /\ Len(Args.value) = 2000
    /\ Ret = Args.value

\* A variable counts as set when it holds a non-empty string.
NonEmptyVar(e, k) == e[k] # Undefined /\ Len(Get(e[k])) > 0
TokenAliases == <<"OPENCLAW_GATEWAY_TOKEN", "MOLTBOT_GATEWAY_TOKEN", "CLAWDBOT_GATEWAY_TOKEN">>
AnyTokenSet(e) == \E i \in 1..3 : NonEmptyVar(e, TokenAliases[i])
HighestToken(e) ==
    LET i == CHOOSE j \in 1..3 :
                 /\ NonEmptyVar(e, TokenAliases[j])
                 /\ \A h \in 1..(j - 1) : ~NonEmptyVar(e, TokenAliases[h])
    IN e[TokenAliases[i]]

WithoutTrailingSlashes(u) ==
    LET keep == { i \in 1..Len(u) : u[i] # "/" }
        last == IF keep = {} THEN 0 ELSE CHOOSE i \in keep : \A j \in keep : j <= i
    IN [i \in 1..last |-> u[i]]
OpenAISuffix == <<"/", "o", "p", "e", "n", "a", "i">>
HasOpenAISuffix(u) ==
    /\ Len(u) >= 7
    /\ \A i \in 1..7 : u[Len(u) - 7 + i] = OpenAISuffix[i]

C18_WitnessAnthropic ==
    /\ Returned("buildEnvVars")
    /\ Args.env.AI_GATEWAY_BASE_URL = Some(AnthropicUrl \o <<"/", "/", "/">>)
    /\ Args.env.ANTHROPIC_API_KEY = Some(AnthropicKey)
    /\ Ret.ANTHROPIC_API_KEY = Some(GatewayKey)
    /\ Ret.ANTHROPIC_BASE_URL = Some(AnthropicUrl)

\* The text is '1' or 'true' in some letter case.
IsOneOrTrue(s) ==
    \/ s = <<"1">>
    \/ /\ Len(s) = 4
       /\ s[1] \in {"t", "T"}
       /\ s[2] \in {"r", "R"}
       /\ s[3] \in {"u", "U"}
       /\ s[4] \in {"e", "E"}
CodexEnabled(e) == e.OPENAI_CODEX_OAUTH # Undefined /\ IsOneOrTrue(Get(e.OPENAI_CODEX_OAUTH))
CodexEnabledPadded(e) == e.OPENAI_CODEX_OAUTH # Undefined /\ IsOneOrTrue(Strip(Get(e.OPENAI_CODEX_OAUTH)))
AccessSatisfied(e) ==
    \/ NonEmptyVar(e, "CF_ACCESS_TEAM_DOMAIN") /\ NonEmptyVar(e, "CF_ACCESS_AUD")
    \/ e.DEV_MODE = Some(TrueText)
    \/ e.E2E_TEST_MODE = Some(TrueText)
KeyedProvider(e) ==
    \/ NonEmptyVar(e, "ANTHROPIC_API_KEY")
    \/ NonEmptyVar(e, "OPENAI_API_KEY")
    \/ NonEmptyVar(e, "AI_GATEWAY_API_KEY") /\ NonEmptyVar(e, "AI_GATEWAY_BASE_URL")
    \/ \A k \in {"CLOUDFLARE_AI_GATEWAY_API_KEY", "CF_AI_GATEWAY_ACCOUNT_ID", "CF_AI_GATEWAY_GATEWAY_ID"} :
          NonEmptyVar(e, k)
Listed(msg, list) == \E i \in DOMAIN list : list[i] = msg

Sub(o, k) == IF o = Undefined THEN Undefined ELSE Get(o)[k]
Blankish(o) == o = Undefined \/ Len(Get(o)) = 0

\* C20: applyCloudflareBrowserProfile leaves the config object as it was
\* and logs exactly one warning when it returns configured = false, with
\* reason 'missing_env' when WORKER_URL or CDP_SECRET is missing and
\* 'invalid_worker_url' when WORKER_URL is invalid; when it returns
\* configured = true the only change is browser.profiles.cloudflare.cdpUrl:
\* every other profile, every other key of the cloudflare profile and every
\* other key of the config are as before.
C20_ConfigChangedOnlyWhenConfigured ==
    Returned("applyCloudflareBrowserProfile") =>
        LET before == Args.config
            after == Ret.config
            r == Ret.returned
            profilesBefore == Sub(before.browser, "profiles")
            profilesAfter == Sub(after.browser, "profiles")
        IN /\ ~r.configured =>
                 /\ after = before
                 /\ Len(Ret.warned) = 1
                 /\ Ret.logged = <<>>
                 /\ r.cdpUrl = Undefined
                 /\ r.reason = (IF Blankish(Args.env.WORKER_URL) \/ Blankish(Args.env.CDP_SECRET)
                                  THEN Some("missing_env") ELSE Some("invalid_worker_url"))
           /\ (Blankish(Args.env.WORKER_URL) \/ Blankish(Args.env.CDP_SECRET)) => ~r.configured
           /\ ( /\ ~Blankish(Args.env.CDP_SECRET)
                /\ Args.env.WORKER_URL \in { Some(<<" ", " ">>),
                                             Some(<<":", "/", "/", "b", "a", "d", "-", "u", "r", "l">>) } )
                 => (~r.configured /\ r.reason = Some("invalid_worker_url"))
           /\ r.configured =>
                 /\ r.reason = Undefined
                 /\ r.cdpUrl # Undefined
                 /\ Ret.warned = <<>>
                 /\ after.gateway = before.gateway
                 /\ Sub(after.browser, "headless") = Sub(before.browser, "headless")
                 /\ Sub(profilesAfter, "existing") = Sub(profilesBefore, "existing")
                 /\ Sub(Sub(profilesAfter, "cloudflare"), "label")
                       = Sub(Sub(profilesBefore, "cloudflare"), "label")
                 /\ Sub(Sub(profilesAfter, "cloudflare"), "cdpUrl") = r.cdpUrl

\* Configured on a config that had another profile and a labelled
\* cloudflare profile: both are kept, cdpUrl is new.
C20_Witness ==
    /\ Returned("applyCloudflareBrowserProfile")
    /\ Ret.returned.configured
    /\ Sub(Sub(Args.config.browser, "profiles"), "existing") # Undefined
    /\ Sub(Sub(Sub(Args.config.browser, "profiles"), "cloudflare"), "label") = Some(KeptValue)
    /\ Sub(Sub(Sub(Ret.config.browser, "profiles"), "cloudflare"), "label") = Some(KeptValue)
    /\ Args.env.WORKER_URL = Some(WorkerHost \o <<"/">>)
    /\ Ret.returned.cdpUrl = Some(WorkerHost \o <<"/", "c", "d", "p", "?", "s", "e", "c", "r", "e", "t", "=",
                                                 "t", "o", "p", "-", "s", "e", "c", "r", "e", "t">>)

\* An invalid WORKER_URL on an empty config: nothing is created.
C20_WitnessInvalid ==
    /\ Returned("applyCloudflareBrowserProfile")
    /\ Ret.returned.reason = Some("invalid_worker_url")
    /\ Args.config.browser = Undefined
    /\ Ret.config.browser = Undefined
    /\ Len(Ret.warned) = 1

\* The sync command and, after it, the marker read were handed to startProcess.
MarkerReadAfterPipeline ==
    \E i, j \in DOMAIN started : i < j /\ started[i].name = "sync" /\ started[j].name = "cat"

Shell == Ret
StageDests == <<"/openclaw/", "/workspace/", "/clawd/", "/skills/", "/.last-sync">>
StageNeeds == <<"nothing", "workspace", "workspace", "skills", "nothing">>
DirThere(i) ==
    CASE StageNeeds[i] = "workspace" -> Args.has.workspace \/ Args.has.skills
      [] StageNeeds[i] = "skills" -> Args.has.skills
      [] OTHER -> TRUE

\* C22: the stages of the pipeline run in the order config copy, workspace
\* copy to the primary destination, workspace copy to the legacy
\* destination, skills copy, marker write; a stage runs only when every
\* stage before it succeeded or was skipped, a failed stage is the last one
\* and leaves no marker, a conditional copy is skipped exactly when its
\* directory is absent and the chain goes on after it, and the marker is
\* written only at the end of a chain with no failure.
C22_ShortCircuitMarkerLast ==
    Returned("syncCmd") =>
        /\ Len(Args.cmd) = Len(StageDests)
        /\ \A i \in DOMAIN StageDests : Args.cmd[i].dest = StageDests[i]
        /\ Len(Shell.trace) <= Len(StageDests)
        /\ \A i \in DOMAIN Shell.trace :
              /\ Shell.trace[i] = "failed" =>
                    /\ i = Len(Shell.trace)
                    /\ Shell.exit \notin {Undefined, Some(0)}
                    /\ ~Shell.marker
              /\ Shell.trace[i] = "skipped" <=> ~DirThere(i)
              /\ (Shell.trace[i] = "skipped" /\ Shell.exit # Undefined) => Len(Shell.trace) > i
              /\ \A j \in 1..(i - 1) : Shell.trace[j] \in {"ok", "skipped"}
        /\ Shell.marker =>
              /\ Len(Shell.trace) = Len(StageDests)
              /\ \A i \in DOMAIN Shell.trace : Shell.trace[i] = (IF DirThere(i) THEN "ok" ELSE "skipped")
        /\ Shell.exit = Some(0) <=> Shell.marker
        /\ (Shell.exit # Undefined /\ Args.fails = Undefined) => Shell.marker

\* The marker was written by a chain that skipped both workspace copies and
\* the skills copy.
C22_Witness ==
    /\ Returned("syncCmd")
    /\ Shell.marker
    /\ Shell.trace = <<"ok", "skipped", "skipped", "skipped", "ok">>

\* The legacy workspace copy failed after two copies: the shell exited
\* without the skills copy and without a marker.
C22_WitnessFailure ==
    /\ Returned("syncCmd")
    /\ Shell.trace = <<"ok", "ok", "failed">>
    /\ Shell.exit = Some(23)
    /\ ~Shell.marker
    /\ Args.has.skills

TransientSuffixes ==
    { <<".", "l", "o", "c", "k">>, <<".", "l", "o", "g">>, <<".", "t", "m", "p">> }
IsTransient(name) ==
    \E x \in TransientSuffixes :
        Len(name) >= Len(x) /\ [i \in 1..Len(x) |-> name[Len(name) - Len(x) + i]] = x

\* C24: no copy of the pipeline puts a file whose name ends in .lock, .log
\* or .tmp into the backup, from the config directory, the workspace or the
\* skills directory.
C24_NoTransientFileCopied ==
    Returned("syncCmd") =>
        \A d \in DOMAIN Shell.bucket : \A r \in Shell.bucket[d] : ~IsTransient(r[Len(r)])

\* A stream as truncateOutput leaves it: at most MAX_LOG_CHARS characters,
\* or that many followed by the truncation marker.
IsCapped(s) ==
    \/ Len(s) <= MAX_LOG_CHARS
    \/ /\ Len(s) = MAX_LOG_CHARS + Len(TruncationMarker)
       /\ [i \in 1..Len(TruncationMarker) |-> s[MAX_LOG_CHARS + i]] = TruncationMarker

RunCommandNames == {"stat", "fsContext", "command -v rsync"}

\* getLogs() was called once for each command whose result is held, never
\* more often than commands were started, and, inside runCommandWithDetails,
\* only with the polling loop over.
LogsFetchedOnce ==
    /\ Len(logCalls) <= Len(started)
    /\ \A i \in DOMAIN logCalls :
          started[i].name \in RunCommandNames => logCalls[i] = started[i].name
    /\ \A r \in HeldResults :
          Cardinality({ i \in DOMAIN logCalls : started[i] = r.command }) = 1
    /\ (pc \in RunCtx /\ rc = "getLogs") =>
          /\ Len(logCalls) = Len(started)
          /\ (procs["proc"].status \notin {"running", "starting"} \/ elapsed >= Timeout(pc))
    /\ (pc \in RunCtx /\ rc \in {"startProcess", "waitForProcess", "sleep"}) =>
          Len(logCalls) = Len(started) - 1

\* C23: every CommandResult built by runCommandWithDetails carries a stdout
\* and a stderr capped to 2000 characters (plus the truncation marker when
\* cut), and the logs of each command are fetched exactly once, after the
\* polling loop has exited.
C23_ResultCappedLogsOnce ==
    /\ \A r \in HeldResults : IsCapped(r.stdout) /\ IsCapped(r.stderr)
    /\ LogsFetchedOnce

\* A stream of the pipeline's logs, '' when it is undefined.
PipelineStream(k) == IF Get(syncLogs)[k] = Undefined THEN <<>> ELSE Get(Get(syncLogs)[k])

\* C25: when the marker read does not yield a date-shaped marker, the result
\* is the failure 'Sync failed' whose details are the pipeline process's own
\* stderr if that is non-empty, otherwise its stdout, and exactly 'No
\* timestamp file created' when both are empty; the output of the marker
\* read is never the details.
C25_SyncFailedDetails ==
    /\ Failed("Sync failed") =>
          /\ timestampLogs # Undefined
          /\ ~MarkerAccepted
          /\ syncLogs # Undefined
          /\ logCalls[Len(logCalls)] = "sync"
          /\ Res.details =
               (CASE PipelineStream("stderr") # <<>> ->
                       Some([kind |-> "output", text |-> PipelineStream("stderr")])
                  [] PipelineStream("stderr") = <<>> /\ PipelineStream("stdout") # <<>> ->
                       Some([kind |-> "output", text |-> PipelineStream("stdout")])
                  [] OTHER -> Some([kind |-> "message", text |-> "No timestamp file created"]))
          /\ (MarkerStdout # Undefined /\ Get(MarkerStdout) # <<>>) =>
                Res.details # Some([kind |-> "output", text |-> Get(MarkerStdout)])
    /\ (pc = "done" /\ timestampLogs # Undefined /\ ~MarkerAccepted /\ raised = Undefined) =>
          Failed("Sync failed")
    /\ syncLogs # Undefined => Failed("Sync failed")

\* The marker read printed text that is not a date, the pipeline printed to
\* stdout only: the details are the pipeline's stdout.
C25_Witness ==
    /\ Failed("Sync failed")
    /\ MarkerStdout = Some(MarkerNotADate)
    /\ PipelineStream("stderr") = <<>>
    /\ Res.details = Some([kind |-> "output", text |-> RsyncOutText])

\* Both streams of the pipeline are empty or undefined.
C25_WitnessNoOutput ==
    /\ Failed("Sync failed")
    /\ Get(syncLogs).stdout = Undefined
    /\ Res.details = Some([kind |-> "message", text |-> "No timestamp file created"])

\* No command was handed to startProcess twice.
StartedOnce == \A i, j \in DOMAIN started : started[i] = started[j] => i = j

\* A step that starts a command starts one, and is taken when nothing was
\* started before, when the previous command's wait and polling loop are over
\* and its logs are being fetched, or as the return of the wait on the
\* pipeline.
StartsAfterWait ==
    started' # started =>
        /\ \E c \in { started'[Len(started')] } : started' = Append(started, c)
        /\ rc' = "startProcess"
        /\ \/ started = <<>> /\ pc = "mount"
           \/ /\ pc \in RunCtx
              /\ rc = "getLogs"
              /\ (procs["proc"].status \notin {"running", "starting"} \/ elapsed >= Timeout(pc))
           \/ /\ pc = "sync"
              /\ rc \in {"startProcess", "waitForProcess"}
              /\ pc' = "timestamp"

\* The status and exit code of a started process change only by what the
\* remote side does, with the invocation left as it is; syncToR2 only takes
\* a handle when startProcess resolves and lets it go out of scope.
NeverKilled ==
    \A h \in DOMAIN procs :
        (procs'[h] # procs[h] /\ procs[h] # NoProc /\ procs'[h] # NoProc) =>
            /\ procs[h].status \in {"running", "starting"}
            /\ <<pc', rc', elapsed', started', result'>> = <<pc, rc, elapsed, started, result>>

\* C26: within one invocation every remote command is started after the
\* local wait on the command started before it has returned, no command is
\* started twice, and no step of syncToR2 ends a process, whether or not its
\* local wait timed out.
C26_SequentialNoRetryNoKill ==
    /\ [](StartedOnce /\ StartedNames \subseteq {"stat", "fsContext", "command -v rsync", "sync", "cat"})
    /\ [][StartsAfterWait /\ NeverKilled]_vars

\* The invocation returned after starting five commands, and the pipeline
\* process, left alone, completed only after the local wait on it was over.
C26_Witness ==
    /\ pc = "done"
    /\ Len(started) = 5
    /\ procs["proc"].status = "completed"
    /\ procs["proc"].late

\* A turn of the polling loop: the clock has advanced by the poll interval
\* and the loop goes on exactly while the process is running or starting and
\* the deadline is not reached.
PollingLoopTurn ==
    (rc = "sleep" /\ <<rc', elapsed'>> # <<rc, elapsed>>) =>
        /\ pc \in RunCtx
        /\ pc' = pc
        /\ elapsed' = elapsed + POLL_INTERVAL_MS
        /\ rc' \in {"sleep", "getLogs"}
        /\ rc' = "sleep" <=>
              (procs'["proc"].status \in {"running", "starting"} /\ elapsed' < Timeout(pc))

\* C27: when every remote call returns, the polling loop of
\* runCommandWithDetails goes on only while the process is running or
\* starting and the deadline is not reached, its time never passes the
\* deadline by more than one interval, and every invocation of syncToR2
\* eventually returns a SyncResult, whether or not the remote processes
\* terminate.
C27_AlwaysReturns ==
    /\ [][PollingLoopTurn]_vars
    /\ [](rc = "sleep" => elapsed < Timeout(pc))
    /\ <>[](pc = "done" /\ HasResult)

\* A command left the wait and the polling loop at its deadline while its
\* process was still running.
C27_Witness ==
    /\ pc \in RunCtx
    /\ rc = "getLogs"
    /\ elapsed >= Timeout(pc)
    /\ procs["proc"].status = "running"

BothReturned ==
    /\ fnArgs # Undefined
    /\ Args.fn = "validateRequiredEnv, buildEnvVars"
    /\ fnResult # Undefined
    /\ Ret.missing # Undefined
    /\ Ret.envVars # Undefined
TokenReportedMissing ==
    \E i \in DOMAIN Get(Ret.missing) :
        Get(Ret.missing)[i] = "OPENCLAW_GATEWAY_TOKEN (or legacy MOLTBOT/CLAWDBOT)"
EmittedKey(k) == Get(Ret.envVars)[k]

\* C28: on one environment, when validateRequiredEnv does not list the
\* gateway token as missing, buildEnvVars emits OPENCLAW_GATEWAY_TOKEN and
\* CLAWDBOT_GATEWAY_TOKEN with one non-empty value, and when it lists the
\* token as missing, buildEnvVars emits neither key.
C28_TokenAgreement ==
    BothReturned =>
        IF TokenReportedMissing
          THEN /\ EmittedKey("OPENCLAW_GATEWAY_TOKEN") = Undefined
               /\ EmittedKey("CLAWDBOT_GATEWAY_TOKEN") = Undefined
          ELSE /\ EmittedKey("OPENCLAW_GATEWAY_TOKEN") # Undefined
               /\ Len(Get(EmittedKey("OPENCLAW_GATEWAY_TOKEN"))) > 0
               /\ EmittedKey("CLAWDBOT_GATEWAY_TOKEN") = EmittedKey("OPENCLAW_GATEWAY_TOKEN")

\* The highest-priority alias is the empty string and a lower one is not:
\* the token is reported missing and neither key is emitted.
C28_Witness ==
    /\ BothReturned
    /\ Args.env.OPENCLAW_GATEWAY_TOKEN = Some(<<>>)
    /\ Args.env.MOLTBOT_GATEWAY_TOKEN = Some(MoltbotToken)
    /\ TokenReportedMissing
    /\ EmittedKey("OPENCLAW_GATEWAY_TOKEN") = Undefined

\* Only the lowest-priority alias is set: nothing is reported for the token
\* and both keys carry it.
C28_WitnessEmitted ==
    /\ BothReturned
    /\ Args.env.OPENCLAW_GATEWAY_TOKEN = Undefined
    /\ Args.env.MOLTBOT_GATEWAY_TOKEN = Undefined
    /\ ~TokenReportedMissing
    /\ EmittedKey("CLAWDBOT_GATEWAY_TOKEN") = Some(ClawdbotToken)

====
